---- MODULE Spec2Model ----
(***************************************************************************)
(* Model of swarm_test: the persistent message queue                       *)
(* (src/messaging/queue.rs), the delivery router (src/opencode/sender.rs)  *)
(* with its session identity map (src/session_mapping.rs), the agent       *)
(* output parser (src/messaging/parser.rs), the tmux control client        *)
(* (src/tmux/cli.rs, session.rs, window.rs, pane.rs), the prompt files     *)
(* and FileLock (src/messaging/send.rs) and the server discovery           *)
(* (src/opencode/discovery.rs). Each component has a specification of its  *)
(* own over the shared variables; the others stay idle in it. The queue    *)
(* and the prompt files also have step models, in which an operation is    *)
(* split at the statements where another thread can interleave.            *)
(*                                                                         *)
(* Texts the parser and the control client search are sequences of atoms   *)
(* (markers, whitespace, words), so that contains, lines, trim and         *)
(* split_whitespace are computed as the code computes them.                *)
(*                                                                         *)
(* Wall-clock fields (QueuedMessage.queued_at, Message.timestamp,          *)
(* SessionMapping.created_at) are left out: no operation reads them.       *)
(* The entries of the in-memory list carry a history field `stamp`, the    *)
(* number of the push_back that appended them; the code has no such field. *)
(***************************************************************************)
EXTENDS Integers, Sequences, FiniteSets, TLC

VARIABLES
    queue,      \* MessageQueue.queue: the in-memory VecDeque<QueuedMessage>
    disk,       \* the *.msg files of queue_dir(): file name -> QueuedMessage
    sweeps,     \* history: per file, retry_failed() calls since enqueue wrote it
    appended,   \* history: number of push_back calls so far
    ret,        \* the last queue operation and what it returned
    prev,       \* the queue operation before that
    opencode_client,  \* OpenCodeSender.opencode_client: <<>> (None) or <<url>>
    auto_detect,      \* OpenCodeSender.config.auto_detect_opencode
    mappings,   \* SessionMappingStore.mappings: remote id -> tmux_session_name
    mapfile,    \* the table persisted at storage_path (sessions.json)
    live,       \* the tmux server: session name -> id of its pane
    typed,      \* the tmux server: pane id -> keys typed into it by send-keys
    rret,       \* the last router or terminal operation and what it returned
    maplog,     \* history: the insert/remove/clear calls made on the store so far
    input,      \* the argument of the pure function under study
    resp,       \* the last call of that function and what it returned
    tmux,       \* the tmux server: its sessions in creation order, each [id, name]
    made,       \* the tmux server: number of sessions it has created (the next id)
    ns,         \* the frame of the caller of tmux::session::new_session
    prompts,    \* the files of the prompt directory: file name -> content
    sent,       \* history: per pane, the prompt its file should hold
    fed,        \* history: message id -> enqueue_message calls on this instance (up to 2)
    mutex,      \* the Mutex of MessageQueue.queue: 0 (free) or the thread holding its guard
    th,         \* per thread, its frame inside a MessageQueue operation
    peers,      \* per process, the table of its SessionMappingStore (one sessions.json)
    peerlog,    \* history: the inserts made on sessions.json, with the process of each
    flocks,     \* the kernel's flock table: lock file -> 0 (free) or the owner locking it
    fl,         \* per owner, its live FileLock values and its last FileLock call
    hand,       \* the frames of the writer and the reader of the prompt files
    scan,       \* the last stats()/retry_failed() over a directory with damaged files
    typing,     \* the frame of the caller of tmux::pane::send_keys_enter
    child,      \* the subprocess of execute_with_timeout and the caller's poll loop
    watch       \* the frame of OpencodeReader::watch_messages and the session it polls

\* the variables of the step models of the terminal client, the scan of a
\* damaged queue directory and the message watcher
wvars == <<scan, typing, child, watch>>

\* none of them in use
WIdle ==
    /\ scan = <<>>
    /\ typing = <<>>
    /\ child = <<>>
    /\ watch = <<>>

qvars == <<queue, disk, sweeps, appended, ret, prev>>

rvars == <<opencode_client, auto_detect, mappings, mapfile, live, typed, rret>>

\* the variables of the components modelled further down
pvars == <<input, resp>>

tvars == <<tmux, made, ns>>

fvars == <<prompts, sent>>

\* the variables of the components modelled last
zvars == <<fed, mutex, th, peers, peerlog, flocks, fl, hand, wvars>>

xvars == <<maplog, input, resp, tmux, made, ns, prompts, sent, zvars>>

vars == <<queue, disk, sweeps, appended, ret, prev,
          opencode_client, auto_detect, mappings, mapfile, live, typed, rret,
          maplog, input, resp, tmux, made, ns, prompts, sent, fed, mutex, th,
          peers, peerlog, flocks, fl, hand, wvars>>

\* ------------------------------------------------------------------ bounds
MaxAppends == 5     \* push_back calls in one behaviour
MaxSweeps == 4      \* the sweep history saturates here (above the retry limit)

\* ------------------------------------------------------------- data model
PaneIds == {"a", "a-b"}
MessageIds == {"c", "b-c"}
Contents == {"hello"}

Message == [id : MessageIds, pane_id : PaneIds, content : Contents]

QUEUE_DIR == ".opencode/queue"
MESSAGE_FILE_SUFFIX == ".msg"

\* MessageQueue::message_file, called with session_id = message.pane_id.0
message_file(session_id, message_id) ==
    QUEUE_DIR \o "/" \o session_id \o "-" \o message_id \o MESSAGE_FILE_SUFFIX

FileOf(m) == message_file(m.pane_id, m.id)

\* QueuedMessage as serialised to its file
QueuedMessage(m, r) == [message |-> m, retries |-> r]

\* the same, as held in the in-memory list
Entry(m, r, s) == [message |-> m, retries |-> r, stamp |-> s]

QueueStats(p, q, f) == [pending |-> p, queued |-> q, failed |-> f]

NoStats == QueueStats(-1, -1, -1)

Ret(op, msg, out, n, st, before) ==
    [op |-> op, msg |-> msg, out |-> out, n |-> n, st |-> st, before |-> before]

NoRet == Ret("new", <<>>, <<>>, 0, NoStats, 0)

\* the orders in which fs::read_dir may list the files of S
ReadDirOrders(S) ==
    {o \in [1..Cardinality(S) -> S] : \A i, j \in 1..Cardinality(S) : o[i] = o[j] => i = j}

\* --------------------------------------------------------------- stats()
\* faulty variant: the failed threshold off by one
stats_failed_gt(d) == Cardinality({f \in DOMAIN d : d[f].retries > 3})

stats_failed(d) == Cardinality({f \in DOMAIN d : d[f].retries >= 3})

stats_queued(d) == Cardinality({f \in DOMAIN d : ~(d[f].retries >= 3)})

stats(q, d) == QueueStats(Len(q), stats_queued(d), stats_failed(d))

\* ------------------------------------------------------------- operations
\* MessageQueue::new on a fresh base path
QInit ==
    /\ queue = <<>>
    /\ disk = <<>>
    /\ sweeps = <<>>
    /\ appended = 0
    /\ ret = NoRet
    /\ prev = NoRet

enqueue_message(m) ==
    /\ appended < MaxAppends
    /\ LET f == FileOf(m) IN
        /\ disk' = [g \in DOMAIN disk \cup {f} |->
                        IF g = f THEN QueuedMessage(m, 0) ELSE disk[g]]
        /\ sweeps' = [g \in DOMAIN disk \cup {f} |-> IF g = f THEN 0 ELSE sweeps[g]]
    /\ queue' = Append(queue, Entry(m, 0, appended + 1))
    /\ appended' = appended + 1
    /\ ret' = Ret("enqueue_message", <<m>>, <<>>, 0, NoStats, Len(queue))
    /\ prev' = ret

pop_front(q) == IF q = <<>> THEN <<>> ELSE <<Head(q)>>

\* faulty variant: front().cloned() as in peek(), the entry stays in the list
dequeue_peek ==
    /\ queue' = queue
    /\ ret' = Ret("dequeue", <<>>, pop_front(queue), 0, NoStats, Len(queue))
    /\ prev' = ret
    /\ UNCHANGED <<disk, sweeps, appended>>

\* faulty variant: pop_back instead of pop_front
dequeue_back ==
    /\ queue' = (IF queue = <<>> THEN queue ELSE SubSeq(queue, 1, Len(queue) - 1))
    /\ ret' = Ret("dequeue", <<>>,
                  IF queue = <<>> THEN <<>> ELSE <<queue[Len(queue)]>>,
                  0, NoStats, Len(queue))
    /\ prev' = ret
    /\ UNCHANGED <<disk, sweeps, appended>>

\* faulty variant: dequeue also removes the file of the entry it returns
dequeue_delete ==
    /\ queue' = (IF queue = <<>> THEN queue ELSE Tail(queue))
    /\ LET gone == IF queue = <<>> THEN {} ELSE {FileOf(Head(queue).message)} IN
        /\ disk' = [f \in DOMAIN disk \ gone |-> disk[f]]
        /\ sweeps' = [f \in DOMAIN disk \ gone |-> sweeps[f]]
    /\ ret' = Ret("dequeue", <<>>, pop_front(queue), 0, NoStats, Len(queue))
    /\ prev' = ret
    /\ UNCHANGED appended

dequeue ==
    /\ queue' = (IF queue = <<>> THEN queue ELSE Tail(queue))
    /\ ret' = Ret("dequeue", <<>>, pop_front(queue), 0, NoStats, Len(queue))
    /\ prev' = ret
    /\ UNCHANGED <<disk, sweeps, appended>>

\* faulty variant: only the in-memory list is cleared, the files stay
clear_memory_only ==
    /\ queue' = <<>>
    /\ ret' = Ret("clear", <<>>, <<>>, 0, NoStats, Len(queue))
    /\ prev' = ret
    /\ UNCHANGED <<disk, sweeps, appended>>

clear ==
    /\ queue' = <<>>
    /\ disk' = <<>>
    /\ sweeps' = <<>>
    /\ ret' = Ret("clear", <<>>, <<>>, 0, NoStats, Len(queue))
    /\ prev' = ret
    /\ UNCHANGED appended

\* faulty variant: one retry too many
should_retry_le(qm) == qm.retries <= 3

should_retry(qm) == qm.retries < 3

\* the files retry_failed rewrites, in the order read_dir lists them
Retried(order, d) == SelectSeq(order, LAMBDA f : should_retry(d[f]))

retry_failed(order) ==
    LET todo == Retried(order, disk) IN
    /\ appended + Len(todo) <= MaxAppends
    /\ disk' = [f \in DOMAIN disk |->
                    IF should_retry(disk[f])
                    THEN QueuedMessage(disk[f].message, disk[f].retries + 1)
                    ELSE disk[f]]
    /\ queue' = queue \o [i \in 1..Len(todo) |->
                    Entry(disk[todo[i]].message, disk[todo[i]].retries + 1, appended + i)]
    /\ appended' = appended + Len(todo)
    /\ sweeps' = [f \in DOMAIN disk |->
                    IF sweeps[f] < MaxSweeps THEN sweeps[f] + 1 ELSE sweeps[f]]
    /\ ret' = Ret("retry_failed", <<>>, <<>>, Len(todo), NoStats, Len(queue))
    /\ prev' = ret

get_stats ==
    /\ ret' = Ret("stats", <<>>, <<>>, 0, stats(queue, disk), Len(queue))
    /\ prev' = ret
    /\ UNCHANGED <<queue, disk, sweeps, appended>>

\* ------------------------------------------------------ delivery router
MaxTyped == 1       \* send-keys commands the terminal log keeps

\* a call of a pure function: its name, whether it panicked, what it returned
Resp(op, panicked, value) == [op |-> op, panicked |-> panicked, value |-> value]

NoResp == Resp("none", FALSE, <<>>)

RemoteIds == {"r1", "r2"}
TmuxPaneIds == {"%0", "%1"}
Texts == {"hello"}
ServerUrls == {"http://127.0.0.1:4096"}

\* crate::config::MessageMode
MessageMode == {"Auto", "Opencode", "Tmux"}

None == <<>>

Some(x) == <<x>>

\* one call made to a collaborator while an operation ran, and whether it succeeded
Call(kind, target, data, ok) == [kind |-> kind, target |-> target, data |-> data, ok |-> ok]

RRet(op, sid, mode, text, val, calls, had) ==
    [op |-> op, sid |-> sid, mode |-> mode, text |-> text, val |-> val,
     calls |-> calls, had |-> had]

NoRRet == RRet("new", "", "", "", "Ok", <<>>, None)

\* the tables a sessions.json left by an earlier run may hold
StoredTables == {<<>>} \cup {[r \in {"r1"} |-> p] : p \in TmuxPaneIds}

\* SessionMappingStore::lookup_tmux
lookup_tmux(table, opencode_id) ==
    IF opencode_id \in DOMAIN table THEN Some(table[opencode_id]) ELSE None

\* faulty variant: an entry already in the table is kept (entry().or_insert)
insert_keep(table, opencode_id, tmux_name) ==
    [r \in DOMAIN table \cup {opencode_id} |->
        IF r \in DOMAIN table THEN table[r] ELSE tmux_name]

\* the HashMap::insert of SessionMappingStore::insert
insert(table, opencode_id, tmux_name) ==
    [r \in DOMAIN table \cup {opencode_id} |->
        IF r = opencode_id THEN tmux_name ELSE table[r]]

\* faulty variant: the write keeps the entries of the file the table lacks
save_merging(table, file, writeOk) ==
    IF writeOk
    THEN [r \in DOMAIN table \cup DOMAIN file |->
            IF r \in DOMAIN table THEN table[r] ELSE file[r]]
    ELSE file

\* SessionMappingStore::save: the whole table replaces the file, or the write fails
save(table, file, writeOk) == IF writeOk THEN table ELSE file

\* crate::tmux::pane::find_pane_by_session_name: the pane of the live session of that name
find_pane_by_session_name(sessions, name) ==
    IF name \in DOMAIN sessions THEN Some(sessions[name]) ELSE None

\* OpenCodeSender::new: no client; the table is loaded from the file, or is
\* empty when SessionMappingStore::new fails
RInit ==
    /\ opencode_client = None
    /\ auto_detect \in BOOLEAN
    /\ mapfile \in StoredTables
    /\ mappings \in {mapfile, <<>>}
    /\ live = <<>>
    /\ typed = <<>>
    /\ rret = NoRRet

\* OpenCodeSender::initialize; `found` is what discover() reports
initialize(server_url, found) ==
    /\ opencode_client' =
            IF server_url = None
            THEN (IF auto_detect /\ found # None THEN found ELSE opencode_client)
            ELSE server_url
    /\ rret' = RRet("initialize", "", "", "", "Ok",
                    IF server_url = None /\ auto_detect
                    THEN <<Call("discover", "", "", found # None)>> ELSE <<>>, None)
    /\ UNCHANGED <<auto_detect, mappings, mapfile, live, typed>>

\* faulty variant: a failed agent call ends the send with its error
send_via_surfaced(op, api, session_id, mode, text, httpOk, writeOk) ==
    LET attempt == (mode = "Auto" \/ mode = "Opencode") /\ opencode_client # None
        http == IF attempt THEN <<Call(api, session_id, text, httpOk)>> ELSE <<>>
        pane == find_pane_by_session_name(live, session_id)
        had == lookup_tmux(mappings, session_id)
    IN  IF attempt
        THEN /\ rret' = RRet(op, session_id, mode, text,
                             IF httpOk THEN "Ok(true)" ELSE "Err", http, had)
             /\ UNCHANGED <<opencode_client, auto_detect, mappings, mapfile, live, typed>>
        ELSE /\ mappings' = IF pane # None
                            THEN insert(mappings, session_id, pane[1]) ELSE mappings
             /\ mapfile' = IF pane # None
                           THEN save(mappings', mapfile, writeOk) ELSE mapfile
             /\ rret' = RRet(op, session_id, mode, text,
                             IF pane # None /\ ~writeOk THEN "Err" ELSE "Ok(false)",
                             http \o <<Call("find_pane_by_session_name", session_id, "", pane # None)>>,
                             had)
             /\ UNCHANGED <<opencode_client, auto_detect, live, typed>>

\* faulty variant: the early return after a successful agent call is missing
send_via_fallthrough(op, api, session_id, mode, text, httpOk, writeOk) ==
    LET attempt == (mode = "Auto" \/ mode = "Opencode") /\ opencode_client # None
        http == IF attempt THEN <<Call(api, session_id, text, httpOk)>> ELSE <<>>
        pane == find_pane_by_session_name(live, session_id)
        had == lookup_tmux(mappings, session_id)
    IN  /\ mappings' = IF pane # None
                       THEN insert(mappings, session_id, pane[1]) ELSE mappings
        /\ mapfile' = IF pane # None
                      THEN save(mappings', mapfile, writeOk) ELSE mapfile
        /\ rret' = RRet(op, session_id, mode, text,
                        IF pane # None /\ ~writeOk THEN "Err"
                        ELSE IF attempt /\ httpOk THEN "Ok(true)" ELSE "Ok(false)",
                        http \o <<Call("find_pane_by_session_name", session_id, "", pane # None)>>,
                        had)
        /\ UNCHANGED <<opencode_client, auto_detect, live, typed>>

\* faulty variant: a send that finds no client under Auto runs discovery again
send_via_rediscovering(op, api, session_id, mode, text, httpOk, writeOk) ==
    LET attempt == (mode = "Auto" \/ mode = "Opencode") /\ opencode_client # None
        again == IF mode = "Auto" /\ opencode_client = None
                 THEN <<Call("discover", "", "", FALSE)>> ELSE <<>>
        http == IF attempt THEN <<Call(api, session_id, text, httpOk)>> ELSE <<>>
        pane == find_pane_by_session_name(live, session_id)
        had == lookup_tmux(mappings, session_id)
    IN  IF attempt /\ httpOk
        THEN /\ rret' = RRet(op, session_id, mode, text, "Ok(true)", http, had)
             /\ UNCHANGED <<opencode_client, auto_detect, mappings, mapfile, live, typed>>
        ELSE /\ mappings' = IF pane # None
                            THEN insert(mappings, session_id, pane[1]) ELSE mappings
             /\ mapfile' = IF pane # None
                           THEN save(mappings', mapfile, writeOk) ELSE mapfile
             /\ rret' = RRet(op, session_id, mode, text,
                             IF pane # None /\ ~writeOk THEN "Err" ELSE "Ok(false)",
                             again \o http \o
                             <<Call("find_pane_by_session_name", session_id, "", pane # None)>>,
                             had)
             /\ UNCHANGED <<opencode_client, auto_detect, live, typed>>

\* faulty variant: the agent is asked whenever a client is set, whatever the mode
send_via_any_mode(op, api, session_id, mode, text, httpOk, writeOk) ==
    LET attempt == opencode_client # None
        http == IF attempt THEN <<Call(api, session_id, text, httpOk)>> ELSE <<>>
        pane == find_pane_by_session_name(live, session_id)
        had == lookup_tmux(mappings, session_id)
    IN  IF attempt /\ httpOk
        THEN /\ rret' = RRet(op, session_id, mode, text, "Ok(true)", http, had)
             /\ UNCHANGED <<opencode_client, auto_detect, mappings, mapfile, live, typed>>
        ELSE /\ mappings' = IF pane # None
                            THEN insert(mappings, session_id, pane[1]) ELSE mappings
             /\ mapfile' = IF pane # None
                           THEN save(mappings', mapfile, writeOk) ELSE mapfile
             /\ rret' = RRet(op, session_id, mode, text,
                             IF pane # None /\ ~writeOk THEN "Err" ELSE "Ok(false)",
                             http \o <<Call("find_pane_by_session_name", session_id, "", pane # None)>>,
                             had)
             /\ UNCHANGED <<opencode_client, auto_detect, live, typed>>

\* the body shared by send_prompt (api = "session_prompt") and
\* send_message (api = "session_message")
send_via(op, api, session_id, mode, text, httpOk, writeOk) ==
    LET attempt == (mode = "Auto" \/ mode = "Opencode") /\ opencode_client # None
        http == IF attempt THEN <<Call(api, session_id, text, httpOk)>> ELSE <<>>
        pane == find_pane_by_session_name(live, session_id)
        had == lookup_tmux(mappings, session_id)
    IN  IF attempt /\ httpOk
        THEN /\ rret' = RRet(op, session_id, mode, text, "Ok(true)", http, had)
             /\ UNCHANGED <<opencode_client, auto_detect, mappings, mapfile, live, typed>>
        ELSE /\ mappings' = IF pane # None
                            THEN insert(mappings, session_id, pane[1]) ELSE mappings
             /\ mapfile' = IF pane # None
                           THEN save(mappings', mapfile, writeOk) ELSE mapfile
             /\ rret' = RRet(op, session_id, mode, text,
                             IF pane # None /\ ~writeOk THEN "Err" ELSE "Ok(false)",
                             http \o <<Call("find_pane_by_session_name", session_id, "", pane # None)>>,
                             had)
             /\ UNCHANGED <<opencode_client, auto_detect, live, typed>>

send_prompt(session_id, mode, prompt, httpOk, writeOk) ==
    send_via("send_prompt", "session_prompt", session_id, mode, prompt, httpOk, writeOk)

send_message(session_id, mode, message, httpOk, writeOk) ==
    send_via("send_message", "session_message", session_id, mode, message, httpOk, writeOk)

\* tmux::pane::send_keys: one send-keys command; it fails when the pane is gone
send_keys(pane_id, keys) ==
    LET alive == \E s \in DOMAIN live : live[s] = pane_id IN
    /\ Len(typed) < MaxTyped
    /\ typed' = IF alive THEN Append(typed, Call("send-keys", pane_id, keys, TRUE)) ELSE typed
    /\ rret' = RRet("send_keys", "", "", keys, IF alive THEN "Ok" ELSE "Err",
                    <<Call("send-keys", pane_id, keys, alive)>>, None)
    /\ UNCHANGED <<opencode_client, auto_detect, mappings, mapfile, live>>

\* tmux::session::new_session: the server gives the session a pane of a fresh id
new_session(name, pane_id) ==
    /\ name \notin DOMAIN live
    /\ \A s \in DOMAIN live : live[s] # pane_id
    /\ live' = [s \in DOMAIN live \cup {name} |-> IF s = name THEN pane_id ELSE live[s]]
    /\ rret' = RRet("new_session", name, "", "", "Ok", <<Call("new-session", name, "", TRUE)>>, None)
    /\ UNCHANGED <<opencode_client, auto_detect, mappings, mapfile, typed>>

\* tmux::session::kill_session
kill_session(name) ==
    /\ name \in DOMAIN live
    /\ live' = [s \in DOMAIN live \ {name} |-> live[s]]
    /\ rret' = RRet("kill_session", name, "", "", "Ok", <<Call("kill-session", name, "", TRUE)>>, None)
    /\ UNCHANGED <<opencode_client, auto_detect, mappings, mapfile, typed>>

\* what the agent may answer to a send in this mode: nothing is asked without a client
HttpOutcomes(mode) ==
    IF (mode = "Auto" \/ mode = "Opencode") /\ opencode_client # None
    THEN BOOLEAN ELSE {FALSE}

\* how the write of sessions.json may end: nothing is written for a session not found
WriteOutcomes(session_id) ==
    IF session_id \in DOMAIN live THEN BOOLEAN ELSE {TRUE}

RouterNext ==
    \/ \E u \in {None} \cup {Some(x) : x \in ServerUrls},
          found \in {None} \cup {Some(x) : x \in ServerUrls} :
            initialize(u, found) /\ UNCHANGED <<qvars, xvars>>
    \/ \E r \in RemoteIds, mode \in MessageMode, t \in Texts :
          \E httpOk \in HttpOutcomes(mode), writeOk \in WriteOutcomes(r) :
            send_prompt(r, mode, t, httpOk, writeOk) /\ UNCHANGED <<qvars, xvars>>
    \/ \E r \in RemoteIds, mode \in MessageMode, t \in Texts :
          \E httpOk \in HttpOutcomes(mode), writeOk \in WriteOutcomes(r) :
            send_message(r, mode, t, httpOk, writeOk) /\ UNCHANGED <<qvars, xvars>>
    \/ \E p \in TmuxPaneIds, t \in Texts : send_keys(p, t) /\ UNCHANGED <<qvars, xvars>>
    \/ \E n \in RemoteIds, p \in TmuxPaneIds : new_session(n, p) /\ UNCHANGED <<qvars, xvars>>
    \/ \E n \in RemoteIds : kill_session(n) /\ UNCHANGED <<qvars, xvars>>

\* the router with no queue opened
QIdle == QInit

\* no call on a store of its own, no parser, no terminal client in use
\* the frame of a new_session call: where it stands, its argument, the lines
\* list-sessions gave, the line being expanded, the sessions built so far,
\* the commands issued, whether list_sessions returned Ok, and the result
Frame(pc, name, snap, i, tree, cmds, listed, result) ==
    [pc |-> pc, name |-> name, snap |-> snap, i |-> i, tree |-> tree, cmds |-> cmds,
     listed |-> listed, result |-> result]

NoFrame == Frame("ready", "", <<>>, 0, <<>>, <<>>, FALSE, None)

\* no call made on a store of its own
MIdle == maplog = <<>>

\* no pure function called
PIdle ==
    /\ input = <<>>
    /\ resp = NoResp

\* no tmux server started
TIdle ==
    /\ tmux = <<>>
    /\ made = 0
    /\ ns = NoFrame

\* no prompt directory
FIdle ==
    /\ prompts = <<>>
    /\ sent = <<>>

\* no history of the queue instance kept
ZIdle ==
    /\ fed = <<>>
    /\ mutex = 0
    /\ th = <<>>
    /\ peers = <<>>
    /\ peerlog = <<>>
    /\ flocks = <<>>
    /\ fl = <<>>
    /\ hand = <<>> /\ WIdle

XIdle == MIdle /\ PIdle /\ TIdle /\ FIdle /\ ZIdle

RouterInit == QIdle /\ RInit /\ XIdle

RouterSpec == RouterInit /\ [][RouterNext]_vars

QueueNext ==
    \/ \E m \in Message : enqueue_message(m) /\ UNCHANGED <<rvars, xvars>>
    \/ dequeue /\ UNCHANGED <<rvars, xvars>>
    \/ clear /\ UNCHANGED <<rvars, xvars>>
    \/ \E order \in ReadDirOrders(DOMAIN disk) : retry_failed(order) /\ UNCHANGED <<rvars, xvars>>
    \/ get_stats /\ UNCHANGED <<rvars, xvars>>

\* the queue with no router constructed
RIdle ==
    /\ opencode_client = None
    /\ auto_detect = FALSE
    /\ mapfile = <<>>
    /\ mappings = <<>>
    /\ live = <<>>
    /\ typed = <<>>
    /\ rret = NoRRet

QueueInit == QInit /\ RIdle /\ XIdle

QueueSpec == QueueInit /\ [][QueueNext]_vars

\* ------------------------------------------------ session identity map
MaxMapOps == 4      \* insert/remove/clear calls in one behaviour

TmuxNames == {"swarm-1", "swarm-2"}

MapOp(op, id, name) == [op |-> op, id |-> id, name |-> name]

\* the HashMap::remove of SessionMappingStore::remove
remove(table, opencode_id) == [r \in DOMAIN table \ {opencode_id} |-> table[r]]

\* SessionMappingStore::list
list(table) ==
    {[opencode_session_id |-> r, tmux_session_name |-> table[r]] : r \in DOMAIN table}

\* struct SessionMapping, as insert builds it
SessionMapping(opencode_id, tmux_name) ==
    [opencode_session_id |-> opencode_id, tmux_session_name |-> tmux_name]

\* serde_json::to_string_pretty(&self.mappings): one member per key, each
\* holding the SessionMapping, in the order the HashMap iterates
to_string_pretty(table, order) ==
    [i \in 1..Len(order) |-> <<order[i], SessionMapping(order[i], table[order[i]])>>]

\* serde_json::from_str into a HashMap: the members are inserted in turn
\* under their key
RECURSIVE from_str(_)
from_str(content) ==
    IF content = <<>> THEN <<>>
    ELSE LET n == Len(content) IN
         insert(from_str(SubSeq(content, 1, n - 1)),
                content[n][1], content[n][2].tmux_session_name)

\* the table SessionMappingStore::new loads from the file save() wrote
new_store(file, order) == from_str(to_string_pretty(file, order))

\* the inserts of earlier runs that left this sessions.json
WrittenBy(file) == IF "r1" \in DOMAIN file THEN <<MapOp("insert", "r1", file["r1"])>> ELSE <<>>

\* SessionMappingStore::new with the router and the queue idle
MInit ==
    /\ mapfile \in {<<>>} \cup {[r \in {"r1"} |-> n] : n \in TmuxNames}
    /\ mappings = mapfile
    /\ maplog = WrittenBy(mapfile)
    /\ opencode_client = None
    /\ auto_detect = FALSE
    /\ live = <<>>
    /\ typed = <<>>
    /\ rret = NoRRet

\* SessionMappingStore::insert: the table changes, then save() may fail
store_insert(opencode_id, tmux_name, writeOk) ==
    /\ Len(maplog) < MaxMapOps
    /\ mappings' = insert(mappings, opencode_id, tmux_name)
    /\ mapfile' = save(mappings', mapfile, writeOk)
    /\ maplog' = Append(maplog, MapOp("insert", opencode_id, tmux_name))
    /\ rret' = RRet("insert", opencode_id, "", tmux_name, IF writeOk THEN "Ok" ELSE "Err",
                    <<>>, lookup_tmux(mappings, opencode_id))
    /\ UNCHANGED <<opencode_client, auto_detect, live, typed>>

\* faulty variant: remove changes the table and returns without save()
store_remove_unsaved(opencode_id, writeOk) ==
    /\ Len(maplog) < MaxMapOps
    /\ mappings' = remove(mappings, opencode_id)
    /\ mapfile' = mapfile
    /\ maplog' = Append(maplog, MapOp("remove", opencode_id, ""))
    /\ rret' = RRet("remove", opencode_id, "", "", IF writeOk THEN "Ok" ELSE "Err",
                    <<>>, lookup_tmux(mappings, opencode_id))
    /\ UNCHANGED <<opencode_client, auto_detect, live, typed>>

\* SessionMappingStore::remove
store_remove(opencode_id, writeOk) ==
    /\ Len(maplog) < MaxMapOps
    /\ mappings' = remove(mappings, opencode_id)
    /\ mapfile' = save(mappings', mapfile, writeOk)
    /\ maplog' = Append(maplog, MapOp("remove", opencode_id, ""))
    /\ rret' = RRet("remove", opencode_id, "", "", IF writeOk THEN "Ok" ELSE "Err",
                    <<>>, lookup_tmux(mappings, opencode_id))
    /\ UNCHANGED <<opencode_client, auto_detect, live, typed>>

\* SessionMappingStore::clear
store_clear(writeOk) ==
    /\ Len(maplog) < MaxMapOps
    /\ mappings' = <<>>
    /\ mapfile' = save(mappings', mapfile, writeOk)
    /\ maplog' = Append(maplog, MapOp("clear", "", ""))
    /\ rret' = RRet("clear", "", "", "", IF writeOk THEN "Ok" ELSE "Err", <<>>, None)
    /\ UNCHANGED <<opencode_client, auto_detect, live, typed>>

MapNext ==
    \/ \E r \in RemoteIds, n \in TmuxNames, writeOk \in BOOLEAN :
          store_insert(r, n, writeOk) /\ UNCHANGED <<qvars, zvars, pvars, tvars, fvars>>
    \/ \E r \in RemoteIds, writeOk \in BOOLEAN :
          store_remove(r, writeOk) /\ UNCHANGED <<qvars, zvars, pvars, tvars, fvars>>
    \/ \E writeOk \in BOOLEAN : store_clear(writeOk) /\ UNCHANGED <<qvars, zvars, pvars, tvars, fvars>>

MapInit == QIdle /\ MInit /\ PIdle /\ TIdle /\ FIdle /\ ZIdle

MapSpec == MapInit /\ [][MapNext]_vars

\* --------------------------------------------------------- output parser
MaxTextLen == 3     \* atoms in a text drawn from the whole alphabet

\* A text is a sequence of atoms: the markers the parser searches for, the
\* two whitespace characters it tells apart, and words without whitespace.
\* No atom is a part of another and none arises from joining two.
Atoms == {"<error>", "</error>", "Error:", "Running:", "<tool_call>", "</tool_call>",
          "<complete>", " ", "\n", "read"}

SeqsUpTo(S, n) == UNION {[1..k -> S] : k \in 0..n}

\* longer texts: the inputs of the tests and of the documented scenarios
Samples ==
    {<<"<error>", "disk", " ", "full", "</error>">>,
     <<"Error:", " ", "disk", " ", "full">>,
     <<"error:", " ", "disk", "\n", "Running:", " ", "read">>,
     <<"Running:", " ", "read", " ", "filePath=/tmp/x.txt">>,
     <<"Running:", " ", "read", "\n", "<tool_call>", "write", " ", "filePath=/tmp/x.txt", "</tool_call>">>,
     <<"<tool_call>", "read", "</tool_call>", " ", "<tool_call>", "write", "</tool_call>">>,
     <<"hello", "\n", "Running:", " ", "read", "\n", "<complete>", "\n", "I'll complete">>,
     <<"hello", " ", "Done.">>}

Inputs == SeqsUpTo(Atoms, MaxTextLen) \cup Samples

IsSpace(a) == a \in {" ", "\n"}

\* str::contains of one atom
contains(text, atom) == \E i \in 1..Len(text) : text[i] = atom

\* str::replace(atom, "")
replace(text, atom) == SelectSeq(text, LAMBDA a : a # atom)

RECURSIVE split(_)
\* the pieces of a text between line feeds
split(text) ==
    IF ~contains(text, "\n") THEN <<text>>
    ELSE LET i == CHOOSE i \in 1..Len(text) :
                    text[i] = "\n" /\ \A j \in 1..i - 1 : text[j] # "\n"
         IN  <<SubSeq(text, 1, i - 1)>> \o split(SubSeq(text, i + 1, Len(text)))

\* str::lines: a final empty piece is no line
lines(text) ==
    LET p == split(text) IN
    IF p[Len(p)] = <<>> THEN SubSeq(p, 1, Len(p) - 1) ELSE p

RECURSIVE join(_, _)
\* [&str]::join
join(ls, sep) ==
    IF ls = <<>> THEN <<>>
    ELSE IF Len(ls) = 1 THEN ls[1]
    ELSE ls[1] \o <<sep>> \o join(Tail(ls), sep)

RECURSIVE trim_start(_)
trim_start(text) ==
    IF text # <<>> /\ IsSpace(text[1]) THEN trim_start(Tail(text)) ELSE text

RECURSIVE trim_end(_)
trim_end(text) ==
    IF text # <<>> /\ IsSpace(text[Len(text)])
    THEN trim_end(SubSeq(text, 1, Len(text) - 1)) ELSE text

\* str::trim
trim(text) == trim_end(trim_start(text))

RECURSIVE split_whitespace(_)
\* str::split_whitespace: the maximal runs of atoms that are not whitespace
split_whitespace(text) ==
    LET t == trim_start(text) IN
    IF t = <<>> THEN <<>>
    ELSE LET n == CHOOSE n \in 1..Len(t) :
                    /\ \A j \in 1..n : ~IsSpace(t[j])
                    /\ n = Len(t) \/ IsSpace(t[n + 1])
         IN  <<SubSeq(t, 1, n)>> \o split_whitespace(SubSeq(t, n + 1, Len(t)))

\* str::split_once('=') of a word
split_once(word) ==
    IF word = <<"filePath=/tmp/x.txt">> THEN Some(<<"filePath", "/tmp/x.txt">>) ELSE None

\* crate::opencode::ToolCall
ToolCall(tool_name, arguments) == [tool_name |-> tool_name, arguments |-> arguments]

\* crate::opencode::AgentResponse
AgentResponse(success, message_type, content, tool_calls, error) ==
    [success |-> success, message_type |-> message_type, content |-> content,
     tool_calls |-> tool_calls, error |-> error]

is_error(output) ==
    contains(output, "<error>") \/ contains(output, "Error:") \/ contains(output, "error:")

is_tool_call(output) == contains(output, "Running:") \/ contains(output, "<tool_call>")

is_completion(output) ==
    contains(output, "<complete>") \/ contains(output, "I'll complete")
        \/ contains(output, "Done.")

strip_error_tags(output) ==
    trim(join(SelectSeq(lines(replace(replace(output, "<error>"), "</error>")),
                        LAMBDA line : ~contains(line, "Error:") /\ ~contains(line, "error:")),
              "\n"))

extract_error_message(output) ==
    trim(join(SelectSeq(lines(output),
                        LAMBDA line : contains(line, "Error:") \/ contains(line, "error:")),
              "\n"))

extract_command_line(command) ==
    LET parts == split_whitespace(command) IN
    IF parts = <<>> THEN None ELSE Some(<<parts[1], Tail(parts)>>)

RECURSIVE xml_arguments(_)
\* the loop of parse_xml_tool_call over parts[1..]
xml_arguments(parts) ==
    IF parts = <<>> THEN <<>>
    ELSE LET before == xml_arguments(SubSeq(parts, 1, Len(parts) - 1))
             kv == split_once(parts[Len(parts)])
         IN  IF kv = None THEN before ELSE insert(before, kv[1][1], kv[1][2])

\* parse_xml_tool_call; the slice line[name_start + 11..name_end] panics when
\* the first closing tag stands before the first opening tag
parse_xml_tool_call(line) ==
    IF ~contains(line, "<tool_call>") \/ ~contains(line, "</tool_call>")
    THEN Resp("parse_xml_tool_call", FALSE, None)
    ELSE LET name_start == CHOOSE i \in 1..Len(line) :
                    line[i] = "<tool_call>" /\ \A j \in 1..i - 1 : line[j] # "<tool_call>"
             name_end == CHOOSE i \in 1..Len(line) :
                    line[i] = "</tool_call>" /\ \A j \in 1..i - 1 : line[j] # "</tool_call>"
             parts == split_whitespace(SubSeq(line, name_start + 1, name_end - 1))
         IN  IF name_end < name_start THEN Resp("parse_xml_tool_call", TRUE, None)
             ELSE IF parts = <<>> THEN Resp("parse_xml_tool_call", FALSE, None)
             ELSE Resp("parse_xml_tool_call", FALSE,
                       Some(ToolCall(parts[1], xml_arguments(Tail(parts)))))

\* the calls one line adds in the loop of extract_tool_calls_from_output
line_tool_calls(line) ==
    LET rest == IF Len(line) >= 2 /\ line[1] = "Running:" /\ line[2] = " "
                THEN Some(SubSeq(line, 3, Len(line))) ELSE None
        cmd == IF rest = None THEN None ELSE extract_command_line(rest[1])
        running == IF cmd = None THEN <<>>
                   ELSE <<ToolCall(cmd[1][1],
                                   [raw_args |-> join(cmd[1][2], " "), command |-> rest[1]])>>
        xml == IF contains(line, "<tool_call>")
               THEN parse_xml_tool_call(line) ELSE Resp("parse_xml_tool_call", FALSE, None)
    IN  Resp("line", xml.panicked, running \o xml.value)

RECURSIVE tool_calls_of_lines(_)
tool_calls_of_lines(ls) ==
    IF ls = <<>> THEN Resp("extract_tool_calls_from_output", FALSE, <<>>)
    ELSE LET before == tool_calls_of_lines(SubSeq(ls, 1, Len(ls) - 1))
             here == line_tool_calls(ls[Len(ls)])
         IN  IF before.panicked THEN before
             ELSE Resp("extract_tool_calls_from_output", here.panicked,
                       before.value \o here.value)

extract_tool_calls_from_output(output) == tool_calls_of_lines(lines(output))

extract_content_from_tool_output(output) ==
    trim(join(SelectSeq(lines(output),
                        LAMBDA line : ~(line # <<>> /\ line[1] = "Running:")
                                        /\ ~(line # <<>> /\ line[1] = "<tool_call>")),
              "\n"))

strip_completion_tags(output) ==
    trim(join(SelectSeq(lines(replace(replace(output, "<complete>"), "</complete>")),
                        LAMBDA line : ~contains(line, "I'll complete")
                                        /\ ~contains(line, "Done.")),
              "\n"))

parse_error(output) ==
    AgentResponse(FALSE, "Error", strip_error_tags(output), <<>>,
                  Some(extract_error_message(output)))

parse_tool_call(output) ==
    LET tool_calls == extract_tool_calls_from_output(output) IN
    Resp("parse_tool_call", tool_calls.panicked,
         IF tool_calls.panicked THEN <<>>
         ELSE <<AgentResponse(TRUE, "ToolCall", extract_content_from_tool_output(output),
                              tool_calls.value, None)>>)

parse_completion(output) ==
    AgentResponse(TRUE, "Completion", strip_completion_tags(output), <<>>, None)

parse_message(output) == AgentResponse(TRUE, "Message", output, <<>>, None)

\* OutputParser::parse_agent_output: the response, or a panic of the call
parse_agent_output(output) ==
    IF is_error(output) THEN Resp("parse_agent_output", FALSE, <<parse_error(output)>>)
    ELSE IF is_tool_call(output)
    THEN Resp("parse_agent_output", parse_tool_call(output).panicked,
              parse_tool_call(output).value)
    ELSE IF is_completion(output)
    THEN Resp("parse_agent_output", FALSE, <<parse_completion(output)>>)
    ELSE Resp("parse_agent_output", FALSE, <<parse_message(output)>>)

RECURSIVE segments_of_lines(_)
\* the loop of split_into_segments: <<segments, current>> after these lines
segments_of_lines(ls) ==
    IF ls = <<>> THEN <<(<<>>), (<<>>)>>
    ELSE LET before == segments_of_lines(SubSeq(ls, 1, Len(ls) - 1))
             line == ls[Len(ls)]
             cut == (contains(line, "<error>") \/ contains(line, "<complete>")
                        \/ contains(line, "Running:")) /\ before[2] # <<>>
         IN  <<IF cut THEN Append(before[1], before[2]) ELSE before[1],
               (IF cut THEN <<>> ELSE before[2]) \o line \o <<"\n">> >>

split_into_segments(output) ==
    LET done == segments_of_lines(lines(output)) IN
    IF done[2] # <<>> THEN Append(done[1], done[2]) ELSE done[1]

RECURSIVE parse_segments(_)
parse_segments(segments) ==
    IF segments = <<>> THEN Resp("parse_multiple_outputs", FALSE, <<>>)
    ELSE LET before == parse_segments(SubSeq(segments, 1, Len(segments) - 1))
             here == parse_agent_output(segments[Len(segments)])
         IN  IF before.panicked THEN before
             ELSE Resp("parse_multiple_outputs", here.panicked,
                       IF here.panicked THEN <<>> ELSE before.value \o here.value)

\* OutputParser::parse_multiple_outputs
parse_multiple_outputs(output) == parse_segments(split_into_segments(output))

\* a text arrives from the agent; no store, queue or router in use
PInit ==
    /\ input \in Inputs
    /\ resp = NoResp

call_parse_agent_output ==
    /\ resp' = parse_agent_output(input)
    /\ UNCHANGED input

call_parse_multiple_outputs ==
    /\ resp' = parse_multiple_outputs(input)
    /\ UNCHANGED input

ParserNext ==
    \/ call_parse_agent_output /\ UNCHANGED <<qvars, zvars, rvars, maplog, tvars, fvars>>
    \/ call_parse_multiple_outputs /\ UNCHANGED <<qvars, zvars, rvars, maplog, tvars, fvars>>

ParserInit == QIdle /\ RIdle /\ MIdle /\ TIdle /\ FIdle /\ PInit /\ ZIdle

ParserSpec == ParserInit /\ [][ParserNext]_vars

\* ------------------------------------------------- terminal control client
MaxOutLen == 2      \* atoms in each output stream of the subprocess

\* the phrases parse_output searches for, and one it does not
OutAtoms == {"not found", "no such", "not connected", "no server running", "duplicate session"}

ExitStatuses == {"exit 0", "exit 1", "signal"}

\* ExitStatus::success
success(status) == status = "exit 0"

\* std::process::Output
Output(status, stdout, stderr) == [status |-> status, stdout |-> stdout, stderr |-> stderr]

Outputs ==
    {Output(st, out, err) : st \in ExitStatuses,
                            out \in SeqsUpTo(OutAtoms, MaxOutLen),
                            err \in SeqsUpTo(OutAtoms, MaxOutLen)}

\* Err(TmuxError::kind(text))
Err(kind, text) == [ok |-> FALSE, kind |-> kind, text |-> text]

\* Ok(Response { success: true, data, error: None })
Response(data, text) == [ok |-> TRUE, kind |-> data, text |-> text]

\* faulty variant: the server test is made before the target test
parse_output_server_first(output) ==
    LET error_msg == IF output.stderr = <<>> THEN output.stdout ELSE output.stderr IN
    IF ~success(output.status)
    THEN IF contains(error_msg, "not connected") \/ contains(error_msg, "no server running")
         THEN Err("NotConnected", <<>>)
         ELSE IF contains(error_msg, "not found") \/ contains(error_msg, "no such")
         THEN Err("NotFound", error_msg)
         ELSE Err("Command", error_msg)
    ELSE IF output.stdout = <<>> THEN Response("Empty", <<>>)
         ELSE Response("Output", output.stdout)

\* TmuxCommand::parse_output
parse_output(output) ==
    LET error_msg == IF output.stderr = <<>> THEN output.stdout ELSE output.stderr IN
    IF ~success(output.status)
    THEN IF contains(error_msg, "not found") \/ contains(error_msg, "no such")
         THEN Err("NotFound", error_msg)
         ELSE IF contains(error_msg, "not connected") \/ contains(error_msg, "no server running")
         THEN Err("NotConnected", <<>>)
         ELSE Err("Command", error_msg)
    ELSE IF output.stdout = <<>> THEN Response("Empty", <<>>)
         ELSE Response("Output", output.stdout)

\* the subprocess has run and left its status and its two streams
EInit ==
    /\ input \in Outputs
    /\ resp = NoResp

\* TmuxCommand::execute; `spawned` is whether tmux could be started at all
execute(spawned) ==
    /\ resp' = Resp("execute", FALSE,
                    IF spawned THEN parse_output(input) ELSE Err("Process", <<>>))
    /\ UNCHANGED input

ExecNext ==
    \/ \E spawned \in BOOLEAN : execute(spawned) /\ UNCHANGED <<qvars, zvars, rvars, maplog, tvars, fvars>>

ExecInit == QIdle /\ RIdle /\ MIdle /\ TIdle /\ FIdle /\ EInit /\ ZIdle

ExecSpec == ExecInit /\ [][ExecNext]_vars

\* --------------------------------------------------------- tmux sessions
MaxCreated == 3     \* sessions the server creates in one behaviour

SessionNames == {"work", "tmp"}

\* types::Session; a new session has one window with one pane
Session(id, name) ==
    [id |-> id, name |-> name, windows |-> <<[id |-> id, panes |-> <<id>>]>>]

\* what tmux prints when the target of a command is gone; with no session
\* left the server itself may have exited
MissingTarget == IF tmux = <<>> THEN {"can't find session", "no server running"}
                 ELSE {"can't find session"}

\* the server still has the session of this id
Alive(id) == \E k \in 1..Len(tmux) : tmux[k].id = id

\* faulty variant: the first session of the listing is taken, whatever its name
find_first(sessions, name) ==
    IF sessions # <<>> THEN [ok |-> TRUE, kind |-> "Session", text |-> sessions[1]]
    ELSE Err("NotFound", <<"not found after creation">>)

\* the find(..).ok_or_else(..) that ends new_session
find_by_name(sessions, name) ==
    IF \E k \in 1..Len(sessions) : sessions[k].name = name
    THEN LET k == CHOOSE k \in 1..Len(sessions) :
                    sessions[k].name = name /\ \A j \in 1..k - 1 : sessions[j].name # name
         IN  [ok |-> TRUE, kind |-> "Session", text |-> sessions[k]]
    ELSE Err("NotFound", <<"not found after creation">>)

\* new_session up to its new-session command: a name in use is refused
new_session_create(name) ==
    /\ ns.pc = "ready"
    /\ made < MaxCreated
    /\ IF \E k \in 1..Len(tmux) : tmux[k].name = name
       THEN /\ ns' = Frame("ready", name, <<>>, 0, <<>>, <<"new-session">>, FALSE,
                           Some(parse_output(Output("exit 1", <<>>, <<"duplicate session">>))))
            /\ UNCHANGED <<tmux, made>>
       ELSE /\ tmux' = Append(tmux, [id |-> made, name |-> name])
            /\ made' = made + 1
            /\ ns' = Frame("created", name, <<>>, 0, <<>>, <<"new-session">>, FALSE, None)

\* list_sessions up to its list-sessions command; with no session the server
\* prints nothing (`quiet`) or has exited
list_sessions_command(stderr) ==
    /\ ns.pc = "created"
    /\ IF tmux = <<>>
       THEN ns' = IF stderr = "no server running"
                  THEN [ns EXCEPT !.pc = "ready",
                                  !.cmds = Append(@, "list-sessions"),
                                  !.result = Some(parse_output(Output("exit 1", <<>>, <<stderr>>)))]
                  ELSE [ns EXCEPT !.pc = "ready",
                                  !.cmds = Append(@, "list-sessions"),
                                  !.listed = TRUE,
                                  !.result = Some(find_by_name(<<>>, ns.name))]
       ELSE ns' = [ns EXCEPT !.pc = "windows", !.snap = tmux, !.i = 1,
                             !.cmds = Append(@, "list-sessions")]
    /\ UNCHANGED <<tmux, made>>

\* faulty variant: a session that is gone is left out and the listing goes on
list_windows_command_skipping(stderr) ==
    /\ ns.pc = "windows"
    /\ ns' = IF Alive(ns.snap[ns.i].id)
             THEN [ns EXCEPT !.pc = "panes", !.cmds = Append(@, "list-windows")]
             ELSE IF ns.i < Len(ns.snap)
             THEN [ns EXCEPT !.i = @ + 1, !.cmds = Append(@, "list-windows")]
             ELSE [ns EXCEPT !.pc = "ready", !.cmds = Append(@, "list-windows"),
                             !.listed = TRUE,
                             !.result = Some(find_by_name(ns.tree, ns.name))]
    /\ UNCHANGED <<tmux, made>>

\* list_windows for the session of line i: its list-windows command
list_windows_command(stderr) ==
    /\ ns.pc = "windows"
    /\ ns' = IF Alive(ns.snap[ns.i].id)
             THEN [ns EXCEPT !.pc = "panes", !.cmds = Append(@, "list-windows")]
             ELSE [ns EXCEPT !.pc = "ready", !.cmds = Append(@, "list-windows"),
                             !.result = Some(parse_output(Output("exit 1", <<>>, <<stderr>>)))]
    /\ UNCHANGED <<tmux, made>>

\* list_panes for the window of that session: its list-panes command; after
\* the last line list_sessions returns and new_session searches the name
list_panes_command(stderr) ==
    /\ ns.pc = "panes"
    /\ LET line == ns.snap[ns.i]
           tree == Append(ns.tree, Session(line.id, line.name))
       IN  ns' = IF ~Alive(line.id)
                 THEN [ns EXCEPT !.pc = "ready", !.cmds = Append(@, "list-panes"),
                                 !.result = Some(parse_output(Output("exit 1", <<>>, <<stderr>>)))]
                 ELSE IF ns.i < Len(ns.snap)
                 THEN [ns EXCEPT !.pc = "windows", !.i = @ + 1, !.tree = tree,
                                 !.cmds = Append(@, "list-panes")]
                 ELSE [ns EXCEPT !.pc = "ready", !.tree = tree,
                                 !.cmds = Append(@, "list-panes"),
                                 !.listed = TRUE,
                                 !.result = Some(find_by_name(tree, ns.name))]
    /\ UNCHANGED <<tmux, made>>

\* kill_session by another client of the server
mutator_kill_session(k) ==
    /\ tmux' = SubSeq(tmux, 1, k - 1) \o SubSeq(tmux, k + 1, Len(tmux))
    /\ UNCHANGED <<made, ns>>

\* rename_session by another client of the server; a name in use is refused
mutator_rename_session(k, new_name) ==
    /\ \A j \in 1..Len(tmux) : tmux[j].name # new_name
    /\ tmux' = [tmux EXCEPT ![k].name = new_name]
    /\ UNCHANGED <<made, ns>>

TmuxNext ==
    \/ \E name \in SessionNames :
          new_session_create(name) /\ UNCHANGED <<qvars, zvars, rvars, maplog, pvars, fvars>>
    \/ \E stderr \in MissingTarget \cup {"quiet"} :
          list_sessions_command(stderr) /\ UNCHANGED <<qvars, zvars, rvars, maplog, pvars, fvars>>
    \/ \E stderr \in MissingTarget :
          list_windows_command(stderr) /\ UNCHANGED <<qvars, zvars, rvars, maplog, pvars, fvars>>
    \/ \E stderr \in MissingTarget :
          list_panes_command(stderr) /\ UNCHANGED <<qvars, zvars, rvars, maplog, pvars, fvars>>
    \/ \E k \in 1..Len(tmux) :
          mutator_kill_session(k) /\ UNCHANGED <<qvars, zvars, rvars, maplog, pvars, fvars>>
    \/ \E k \in 1..Len(tmux), new_name \in SessionNames :
          mutator_rename_session(k, new_name) /\ UNCHANGED <<qvars, zvars, rvars, maplog, pvars, fvars>>

\* a server with no session and no call in progress
TInit ==
    /\ tmux = <<>>
    /\ made = 0
    /\ ns = NoFrame

TmuxInit == QIdle /\ RIdle /\ MIdle /\ PIdle /\ FIdle /\ TInit /\ ZIdle

TmuxSpec == TmuxInit /\ [][TmuxNext]_vars

\* ----------------------------------------------------------- prompt files
PROMPT_INPUT_SUFFIX == ".prompt.input"

PROMPT_DIR == ".opencode/prompts"

PromptTexts == {<<"hello">>, <<"bye">>}

\* the history value of a pane whose file a failed write left in an unknown state
Unknown == <<"?", "?">>

\* MessageSender::pane_prompt_file
pane_prompt_file(pane_id) == PROMPT_DIR \o "/" \o pane_id \o PROMPT_INPUT_SUFFIX

\* the result of one MessageSender call on a pane
PromptRet(pane_id, ok, kind, text, had) ==
    [pane |-> pane_id, ok |-> ok, kind |-> kind, text |-> text, had |-> had]

\* the files with one of them written, and with one of them removed
WithFile(files, file, content) ==
    [f \in DOMAIN files \cup {file} |-> IF f = file THEN content ELSE files[f]]

WithoutFile(files, file) == [f \in DOMAIN files \ {file} |-> files[f]]

\* faulty variant: the file is opened without truncate(true)
written_append(old, prompt) == old \o prompt \o <<"\n">>

\* what open(..truncate(true)..) and writeln!(file, "{}", prompt) leave in the file
written(old, prompt) == prompt \o <<"\n">>

\* MessageSender::new on a base path that holds no prompt, or one of an earlier run
FInit ==
    /\ \E old \in {None} \cup {Some(t) : t \in PromptTexts} :
          /\ prompts = IF old = None THEN <<>>
                       ELSE WithFile(<<>>, pane_prompt_file("%0"), written(<<>>, old[1]))
          /\ sent = [p \in TmuxPaneIds |-> IF p = "%0" THEN old ELSE None]
    /\ input = <<>>
    /\ resp = NoResp

\* MessageSender::send_prompt; io tells how far the writes get
MessageSender_send_prompt(pane_id, prompt, io) ==
    LET prompt_file == pane_prompt_file(pane_id)
        had == prompt_file \in DOMAIN prompts
        old == IF had THEN prompts[prompt_file] ELSE <<>>
    IN  /\ prompts' = CASE io = "ok" -> WithFile(prompts, prompt_file, written(old, prompt))
                        [] io = "open failed" -> prompts
                        [] io = "write failed" -> WithFile(prompts, prompt_file, <<>>)
                        [] io = "newline failed" -> WithFile(prompts, prompt_file, prompt)
        /\ sent' = CASE io = "ok" -> [sent EXCEPT ![pane_id] = Some(prompt)]
                     [] io = "open failed" -> sent
                     [] OTHER -> [sent EXCEPT ![pane_id] = Unknown]
        /\ resp' = Resp("send_prompt", FALSE,
                        IF io = "ok" THEN PromptRet(pane_id, TRUE, "Ok", prompt, had)
                        ELSE PromptRet(pane_id, FALSE, "Process", prompt, had))
        /\ UNCHANGED input

\* MessageSender::read_prompt
read_prompt(pane_id, io) ==
    LET prompt_file == pane_prompt_file(pane_id)
        had == prompt_file \in DOMAIN prompts
    IN  /\ resp' = Resp("read_prompt", FALSE,
                        IF ~had THEN PromptRet(pane_id, FALSE, "NotFound", <<>>, had)
                        ELSE IF io = "ok"
                        THEN PromptRet(pane_id, TRUE, "Ok", prompts[prompt_file], had)
                        ELSE PromptRet(pane_id, FALSE, "Process", <<>>, had))
        /\ UNCHANGED <<prompts, sent, input>>

\* MessageSender::clear_prompt
clear_prompt(pane_id, io) ==
    LET prompt_file == pane_prompt_file(pane_id)
        had == prompt_file \in DOMAIN prompts
    IN  /\ prompts' = IF had /\ io = "ok" THEN WithoutFile(prompts, prompt_file) ELSE prompts
        /\ sent' = IF had /\ io = "ok" THEN [sent EXCEPT ![pane_id] = None] ELSE sent
        /\ resp' = Resp("clear_prompt", FALSE,
                        IF had /\ io # "ok" THEN PromptRet(pane_id, FALSE, "Process", <<>>, had)
                        ELSE PromptRet(pane_id, TRUE, "Ok", <<>>, had))
        /\ UNCHANGED input

\* the ways the file system may fail a call that touches an existing file
IoOutcomes(pane_id) ==
    IF pane_prompt_file(pane_id) \in DOMAIN prompts THEN {"ok", "failed"} ELSE {"ok"}

PromptNext ==
    \/ \E p \in TmuxPaneIds, t \in PromptTexts,
          io \in {"ok", "open failed", "write failed", "newline failed"} :
            MessageSender_send_prompt(p, t, io)
                /\ UNCHANGED <<qvars, zvars, rvars, maplog, tvars>>
    \/ \E p \in TmuxPaneIds : \E io \in IoOutcomes(p) :
            read_prompt(p, io) /\ UNCHANGED <<qvars, zvars, rvars, maplog, tvars>>
    \/ \E p \in TmuxPaneIds : \E io \in IoOutcomes(p) :
            clear_prompt(p, io) /\ UNCHANGED <<qvars, zvars, rvars, maplog, tvars>>

PromptInit == QIdle /\ RIdle /\ MIdle /\ TIdle /\ FInit /\ ZIdle

PromptSpec == PromptInit /\ [][PromptNext]_vars

\* ------------------------------------------- the lifetime of a queue instance
\* one more enqueue_message call counted for the id (the count stops at 2)
Fed(f, id) ==
    [i \in DOMAIN f \cup {id} |->
        IF i # id THEN f[i] ELSE IF id \in DOMAIN f THEN 2 ELSE 1]

\* the instance is running: its process did not die
Running == ret.op # "crash"

\* enqueue_message when the process dies after file.flush() and before
\* push_back: the file is written, the list of the dead process is out of reach
enqueue_crash(m) ==
    /\ LET f == FileOf(m) IN
        /\ disk' = [g \in DOMAIN disk \cup {f} |->
                        IF g = f THEN QueuedMessage(m, 0) ELSE disk[g]]
        /\ sweeps' = [g \in DOMAIN disk \cup {f} |-> IF g = f THEN 0 ELSE sweeps[g]]
    /\ ret' = Ret("crash", <<m>>, <<>>, 0, NoStats, Len(queue))
    /\ prev' = ret
    /\ UNCHANGED <<queue, appended>>

\* faulty variant: the new instance loads the files of the directory into its list
new_loading ==
    /\ \E order \in ReadDirOrders(DOMAIN disk) :
            queue' = [i \in 1..Len(order) |->
                        Entry(disk[order[i]].message, disk[order[i]].retries, 0)]
    /\ ret' = Ret("new", <<>>, <<>>, 0, NoStats, Len(queue))
    /\ prev' = ret
    /\ UNCHANGED <<disk, sweeps, appended>>

\* MessageQueue::new on the base path of the dead instance: create_dir_all
\* keeps the files, the list starts empty
new ==
    /\ queue' = <<>>
    /\ ret' = Ret("new", <<>>, <<>>, 0, NoStats, Len(queue))
    /\ prev' = ret
    /\ UNCHANGED <<disk, sweeps, appended>>

\* the variables of the other components
yvars == <<rvars, maplog, pvars, tvars, fvars>>

\* the variables of the step models
svars == <<mutex, th, peers, peerlog, flocks, fl, hand, wvars>>

\* the messages sent to one pane
ToPane(pane_id) == {m \in Message : m.pane_id = pane_id}

CrashNext ==
    \/ \E m \in ToPane("a-b") :
          Running /\ enqueue_message(m) /\ fed' = Fed(fed, m.id) /\ UNCHANGED <<yvars, svars>>
    \/ \E m \in ToPane("a-b") :
          Running /\ enqueue_crash(m) /\ UNCHANGED <<fed, yvars, svars>>
    \/ ~Running /\ new /\ fed' = <<>> /\ UNCHANGED <<yvars, svars>>
    \/ Running /\ dequeue /\ UNCHANGED <<fed, yvars, svars>>
    \/ Running /\ clear /\ UNCHANGED <<fed, yvars, svars>>
    \/ \E order \in ReadDirOrders(DOMAIN disk) :
          Running /\ retry_failed(order) /\ UNCHANGED <<fed, yvars, svars>>

CrashInit == QInit /\ RIdle /\ XIdle

CrashSpec == CrashInit /\ [][CrashNext]_vars

\* ------------------------------------------------- the queue mutex, by steps
MaxPushes == 2      \* push_back calls before no new enqueue or sweep starts

\* the threads sharing one MessageQueue (its list is an Arc<Mutex<VecDeque>>)
Threads == {1, 2}

\* the frame of a thread inside an operation: the operation, the statement it
\* stands before, the message of enqueue_message, the files read_dir listed
\* that are still to visit, and the QueuedMessage being handled
LFrame(op, pc, msg, todo, cur) ==
    [op |-> op, pc |-> pc, msg |-> msg, todo |-> todo, cur |-> cur]

NoLFrame == LFrame("none", "idle", <<>>, <<>>, <<>>)

\* the statements that touch the file system
IoSteps == {"write_file", "read_dir", "read_file", "rewrite_file", "remove_file"}

\* where a loop over the listed files goes next
next_file(todo, step) == IF todo = <<>> THEN "return" ELSE step

LInit ==
    /\ mutex = 0
    /\ th = [t \in Threads |-> NoLFrame]

call_enqueue_message(t, m) ==
    /\ th[t].pc = "idle" /\ appended < MaxPushes
    /\ th' = [th EXCEPT ![t] = LFrame("enqueue_message", "write_file", <<m>>, <<>>, <<>>)]
    /\ UNCHANGED <<mutex, queue, disk, appended>>

call_dequeue(t) ==
    /\ th[t].pc = "idle"
    /\ th' = [th EXCEPT ![t] = LFrame("dequeue", "lock", <<>>, <<>>, <<>>)]
    /\ UNCHANGED <<mutex, queue, disk, appended>>

call_retry_failed(t) ==
    /\ th[t].pc = "idle" /\ appended < MaxPushes
    /\ th' = [th EXCEPT ![t] = LFrame("retry_failed", "read_dir", <<>>, <<>>, <<>>)]
    /\ UNCHANGED <<mutex, queue, disk, appended>>

call_clear(t) ==
    /\ th[t].pc = "idle"
    /\ th' = [th EXCEPT ![t] = LFrame("clear", "lock", <<>>, <<>>, <<>>)]
    /\ UNCHANGED <<mutex, queue, disk, appended>>

\* enqueue_message: OpenOptions::open, to_writer_pretty, flush
do_write_file(t) ==
    /\ th[t].pc = "write_file"
    /\ LET m == th[t].msg[1] f == FileOf(m) IN
        /\ disk' = [g \in DOMAIN disk \cup {f} |->
                        IF g = f THEN QueuedMessage(m, 0) ELSE disk[g]]
        /\ th' = [th EXCEPT ![t].pc = "lock", ![t].cur = <<QueuedMessage(m, 0)>>]
    /\ UNCHANGED <<mutex, queue, appended>>

\* self.queue.lock().unwrap(): waits until the mutex is free
lock_queue(t) ==
    /\ th[t].pc = "lock" /\ mutex = 0
    /\ mutex' = t
    /\ th' = [th EXCEPT ![t].pc =
                    CASE th[t].op = "dequeue" -> "pop_front"
                      [] th[t].op = "clear" -> "clear_list"
                      [] OTHER -> "push_back"]
    /\ UNCHANGED <<queue, disk, appended>>

\* push_back on the guard, a temporary dropped at the end of the statement
do_push_back(t) ==
    /\ th[t].pc = "push_back"
    /\ queue' = Append(queue, Entry(th[t].cur[1].message, th[t].cur[1].retries, appended + 1))
    /\ appended' = appended + 1
    /\ th' = [th EXCEPT ![t].pc = "unlock"]
    /\ UNCHANGED <<mutex, disk>>

\* dequeue: pop_front on the guard, dropped when the function returns
do_pop_front(t) ==
    /\ th[t].pc = "pop_front"
    /\ queue' = (IF queue = <<>> THEN queue ELSE Tail(queue))
    /\ th' = [th EXCEPT ![t].pc = "unlock", ![t].cur = pop_front(queue)]
    /\ UNCHANGED <<mutex, disk, appended>>

\* faulty variant: the guard is dropped right after queue.clear()
do_clear_list_unlocking(t) ==
    /\ th[t].pc = "clear_list"
    /\ queue' = <<>>
    /\ mutex' = 0
    /\ th' = [th EXCEPT ![t].pc = "read_dir"]
    /\ UNCHANGED <<disk, appended>>

\* clear: queue.clear() on the guard `queue`, a local that lives to the end
\* of the function
do_clear_list(t) ==
    /\ th[t].pc = "clear_list"
    /\ queue' = <<>>
    /\ th' = [th EXCEPT ![t].pc = "read_dir"]
    /\ UNCHANGED <<mutex, disk, appended>>

\* fs::read_dir of retry_failed and of clear
do_read_dir(t, order) ==
    /\ th[t].pc = "read_dir"
    /\ th' = [th EXCEPT ![t].todo = order,
                        ![t].pc = IF th[t].op = "clear"
                                  THEN (IF order = <<>> THEN "unlock" ELSE "remove_file")
                                  ELSE next_file(order, "read_file")]
    /\ UNCHANGED <<mutex, queue, disk, appended>>

\* clear: fs::remove_file(path)?; a file already gone ends the call with Err
do_remove_file(t) ==
    /\ th[t].pc = "remove_file"
    /\ LET f == Head(th[t].todo) IN
        IF f \in DOMAIN disk
        THEN /\ disk' = [g \in DOMAIN disk \ {f} |-> disk[g]]
             /\ th' = [th EXCEPT ![t].todo = Tail(th[t].todo),
                                 ![t].pc = IF Tail(th[t].todo) = <<>>
                                           THEN "unlock" ELSE "remove_file"]
        ELSE /\ disk' = disk
             /\ th' = [th EXCEPT ![t].pc = "unlock"]
    /\ UNCHANGED <<mutex, queue, appended>>

\* retry_failed: fs::read_to_string(&path)?; a file already gone ends the
\* call with Err, a file with retries >= 3 is skipped
do_read_file(t) ==
    /\ th[t].pc = "read_file"
    /\ LET f == Head(th[t].todo) IN
        th' = [th EXCEPT ![t] =
                IF f \notin DOMAIN disk
                THEN LFrame("retry_failed", "return", <<>>, <<>>, <<>>)
                ELSE IF should_retry(disk[f])
                THEN LFrame("retry_failed", "rewrite_file", <<>>, th[t].todo,
                            <<QueuedMessage(disk[f].message, disk[f].retries + 1)>>)
                ELSE LFrame("retry_failed", next_file(Tail(th[t].todo), "read_file"),
                            <<>>, Tail(th[t].todo), <<>>)]
    /\ UNCHANGED <<mutex, queue, disk, appended>>

\* retry_failed: the file is opened with create and truncate and rewritten
do_rewrite_file(t) ==
    /\ th[t].pc = "rewrite_file"
    /\ LET f == Head(th[t].todo) IN
        disk' = [g \in DOMAIN disk \cup {f} |-> IF g = f THEN th[t].cur[1] ELSE disk[g]]
    /\ th' = [th EXCEPT ![t].pc = "lock"]
    /\ UNCHANGED <<mutex, queue, appended>>

\* the MutexGuard is dropped: at the end of the push_back statement, or when
\* dequeue and clear return
drop_guard(t) ==
    /\ th[t].pc = "unlock" /\ mutex = t
    /\ mutex' = 0
    /\ th' = [th EXCEPT ![t] =
                IF th[t].op = "retry_failed"
                THEN LFrame("retry_failed", next_file(Tail(th[t].todo), "read_file"),
                            <<>>, Tail(th[t].todo), <<>>)
                ELSE LFrame(th[t].op, "return", <<>>, <<>>, th[t].cur)]
    /\ UNCHANGED <<queue, disk, appended>>

\* the operation returns to its caller
return(t) ==
    /\ th[t].pc = "return"
    /\ th' = [th EXCEPT ![t] = NoLFrame]
    /\ UNCHANGED <<mutex, queue, disk, appended>>

\* the variables the step model leaves alone
lvars == <<sweeps, ret, prev, yvars, fed, peers, peerlog, flocks, fl, hand, wvars>>

LockNext ==
    \/ \E t \in Threads, m \in ToPane("a") : call_enqueue_message(t, m) /\ UNCHANGED lvars
    \/ \E t \in Threads : call_dequeue(t) /\ UNCHANGED lvars
    \/ \E t \in Threads : call_retry_failed(t) /\ UNCHANGED lvars
    \/ \E t \in Threads : call_clear(t) /\ UNCHANGED lvars
    \/ \E t \in Threads : do_write_file(t) /\ UNCHANGED lvars
    \/ \E t \in Threads : lock_queue(t) /\ UNCHANGED lvars
    \/ \E t \in Threads : do_push_back(t) /\ UNCHANGED lvars
    \/ \E t \in Threads : do_pop_front(t) /\ UNCHANGED lvars
    \/ \E t \in Threads : do_clear_list(t) /\ UNCHANGED lvars
    \/ \E t \in Threads, order \in ReadDirOrders(DOMAIN disk) :
            do_read_dir(t, order) /\ UNCHANGED lvars
    \/ \E t \in Threads : do_remove_file(t) /\ UNCHANGED lvars
    \/ \E t \in Threads : do_read_file(t) /\ UNCHANGED lvars
    \/ \E t \in Threads : do_rewrite_file(t) /\ UNCHANGED lvars
    \/ \E t \in Threads : drop_guard(t) /\ UNCHANGED lvars
    \/ \E t \in Threads : return(t) /\ UNCHANGED lvars

LockInit ==
    /\ QInit /\ RIdle /\ MIdle /\ PIdle /\ TIdle /\ FIdle
    /\ fed = <<>> /\ peers = <<>> /\ peerlog = <<>> /\ flocks = <<>> /\ fl = <<>>
    /\ hand = <<>> /\ WIdle
    /\ LInit

LockSpec == LockInit /\ [][LockNext]_vars

\* ------------------------------------- two processes on one sessions.json
\* the processes that each hold a SessionMappingStore; 0 stands for earlier runs
Procs == {1, 2}

PeerOp(proc, id, name, ok) == [proc |-> proc, id |-> id, name |-> name, ok |-> ok]

\* the inserts of earlier runs that left this sessions.json
LeftBy(file) == [i \in 1..Len(WrittenBy(file)) |->
                    PeerOp(0, WrittenBy(file)[i].id, WrittenBy(file)[i].name, TRUE)]

\* SessionMappingStore::new in both processes, from the same file
PInit2 ==
    /\ mapfile \in {<<>>} \cup {[r \in {"r1"} |-> n] : n \in TmuxNames}
    /\ peers = [p \in Procs |-> mapfile]
    /\ peerlog = LeftBy(mapfile)
    /\ mappings = <<>>
    /\ opencode_client = None
    /\ auto_detect = FALSE
    /\ live = <<>>
    /\ typed = <<>>
    /\ rret = NoRRet

\* SessionMappingStore::insert in process p: its own table changes, then
\* save() writes that table over the file, or fails
peer_insert(p, opencode_id, tmux_name, writeOk) ==
    /\ Len(peerlog) < MaxMapOps
    /\ peers' = [peers EXCEPT ![p] = insert(peers[p], opencode_id, tmux_name)]
    /\ mapfile' = save(peers'[p], mapfile, writeOk)
    /\ peerlog' = Append(peerlog, PeerOp(p, opencode_id, tmux_name, writeOk))
    /\ rret' = RRet("insert", opencode_id, "", tmux_name, IF writeOk THEN "Ok" ELSE "Err",
                    <<>>, lookup_tmux(peers[p], opencode_id))
    /\ UNCHANGED <<opencode_client, auto_detect, mappings, live, typed>>

PeerNext ==
    \E p \in Procs, r \in RemoteIds, n \in TmuxNames, writeOk \in BOOLEAN :
        /\ peer_insert(p, r, n, writeOk)
        /\ UNCHANGED <<qvars, maplog, pvars, tvars, fvars, fed, mutex, th, flocks, fl, hand, wvars>>

PeerInit ==
    /\ QIdle /\ MIdle /\ PIdle /\ TIdle /\ FIdle
    /\ fed = <<>> /\ mutex = 0 /\ th = <<>> /\ flocks = <<>> /\ fl = <<>> /\ hand = <<>> /\ WIdle
    /\ PInit2

PeerSpec == PeerInit /\ [][PeerNext]_vars

\* ------------------------------------------------ FileLock (unix build)
\* the threads or processes that take file locks
Owners == {1, 2}

\* the lock files; nothing in the crate removes them
LockPaths == {".opencode/prompts/a.lock", ".opencode/prompts/b.lock"}

\* the last FileLock call of an owner: the call, its path, what it returned,
\* and whether the path was locked when the call began; a "try_with" that
\* returned Ok from acquire stands in the closure
FlRet(op, path, val, busy) == [op |-> op, path |-> path, val |-> val, busy |-> busy]

\* held: the paths of the FileLock values the owner keeps; scoped: the path of
\* the `_lock` of a try_with whose closure is running, or <<>>
FlFrame(held, scoped, last) == [held |-> held, scoped |-> scoped, last |-> last]

\* the paths on which the owner has a live FileLock value
Holding(o) == fl[o].held \cup {fl[o].scoped[i] : i \in 1..Len(fl[o].scoped)}

\* how create_dir_all and OpenOptions::open may end
OpenOutcomes == {"ok", "open failed"}

\* what FileLock::acquire returns: the error of the open, WouldBlock when
\* flock(LOCK_EX | LOCK_NB) returns nonzero, or the FileLock
acquire_result(path, io) ==
    IF io # "ok" THEN "Err(io)"
    ELSE IF flocks[path] # 0 THEN "Err(Process(WouldBlock))"
    ELSE "Ok"

FLInit ==
    /\ flocks = [p \in LockPaths |-> 0]
    /\ fl = [o \in Owners |-> FlFrame({}, <<>>, FlRet("none", "", "Ok", FALSE))]

\* faulty variant: the result of flock is not looked at
acquire_unchecked(o, path, io) ==
    /\ flocks' = IF io = "ok" THEN [flocks EXCEPT ![path] = o] ELSE flocks
    /\ fl' = [fl EXCEPT ![o].held = IF io = "ok" THEN @ \cup {path} ELSE @,
                        ![o].last = FlRet("acquire", path,
                                          IF io = "ok" THEN "Ok" ELSE "Err(io)",
                                          flocks[path] # 0)]

\* FileLock::acquire, the value kept by the caller
acquire(o, path, io) ==
    LET r == acquire_result(path, io) IN
    /\ flocks' = IF r = "Ok" THEN [flocks EXCEPT ![path] = o] ELSE flocks
    /\ fl' = [fl EXCEPT ![o].held = IF r = "Ok" THEN @ \cup {path} ELSE @,
                        ![o].last = FlRet("acquire", path, r, flocks[path] # 0)]

\* Drop for FileLock: flock(LOCK_UN), then the file is closed
drop(o, path) ==
    /\ path \in fl[o].held
    /\ flocks' = [flocks EXCEPT ![path] = 0]
    /\ fl' = [fl EXCEPT ![o].held = @ \ {path},
                        ![o].last = FlRet("drop", path, "Ok", TRUE)]

\* FileLock::try_with up to the call of the closure: `Self::acquire(path)?`
try_with(o, path, io) ==
    LET r == acquire_result(path, io) IN
    /\ fl[o].scoped = <<>>
    /\ flocks' = IF r = "Ok" THEN [flocks EXCEPT ![path] = o] ELSE flocks
    /\ fl' = [fl EXCEPT ![o].scoped = IF r = "Ok" THEN <<path>> ELSE @,
                        ![o].last = FlRet("try_with", path, r, flocks[path] # 0)]

\* faulty variant: the lock is forgotten when the closure fails
try_with_exit_leaking(o, outcome) ==
    /\ fl[o].scoped # <<>>
    /\ flocks' = IF outcome = "Ok" THEN [flocks EXCEPT ![fl[o].scoped[1]] = 0] ELSE flocks
    /\ fl' = [fl EXCEPT ![o].scoped = <<>>,
                        ![o].last = FlRet("try_with returned", fl[o].scoped[1], outcome, TRUE)]

\* FileLock::try_with from the end of the closure: f() returned Ok or Err, or
\* panicked; `_lock` is dropped as the scope is left
try_with_exit(o, outcome) ==
    /\ fl[o].scoped # <<>>
    /\ flocks' = [flocks EXCEPT ![fl[o].scoped[1]] = 0]
    /\ fl' = [fl EXCEPT ![o].scoped = <<>>,
                        ![o].last = FlRet("try_with returned", fl[o].scoped[1], outcome, TRUE)]

\* how the closure given to try_with may end
ClosureOutcomes == {"Ok", "Err(closure)", "panic"}

FlockNext ==
    \/ \E o \in Owners, path \in LockPaths, io \in OpenOutcomes :
            acquire(o, path, io) /\ UNCHANGED <<qvars, yvars, fed, mutex, th, peers, peerlog, hand, wvars>>
    \/ \E o \in Owners, path \in LockPaths :
            drop(o, path) /\ UNCHANGED <<qvars, yvars, fed, mutex, th, peers, peerlog, hand, wvars>>
    \/ \E o \in Owners, path \in LockPaths, io \in OpenOutcomes :
            try_with(o, path, io) /\ UNCHANGED <<qvars, yvars, fed, mutex, th, peers, peerlog, hand, wvars>>
    \/ \E o \in Owners, outcome \in ClosureOutcomes :
            try_with_exit(o, outcome) /\ UNCHANGED <<qvars, yvars, fed, mutex, th, peers, peerlog, hand, wvars>>

FlockInit ==
    /\ QIdle /\ RIdle /\ MIdle /\ PIdle /\ TIdle /\ FIdle
    /\ fed = <<>> /\ mutex = 0 /\ th = <<>> /\ peers = <<>> /\ peerlog = <<>> /\ hand = <<>> /\ WIdle
    /\ FLInit

FlockSpec == FlockInit /\ [][FlockNext]_vars

\* ------------------------------------- the prompt file hand-off, by steps
\* the frame of the writer or of the reader: the call, the statement it
\* stands before, its pane and prompt, and the result of its last call
HFrame(op, pc, pane, prompt, last) ==
    [op |-> op, pc |-> pc, pane |-> pane, prompt |-> prompt, last |-> last]

NoHFrame == HFrame("none", "idle", "", <<>>, PromptRet("", TRUE, "none", <<>>, FALSE))

\* the three comment lines and the blank line send_prompt_with_metadata
\* writes before the prompt
Header == <<"# session", "\n", "# timestamp", "\n", "# agent", "\n", "\n">>

\* what a completed call leaves in the file
Complete(op, prompt) ==
    IF op = "send_prompt_with_metadata"
    THEN Header \o written(<<>>, prompt) ELSE written(<<>>, prompt)

\* the file of the writer's pane grows by these atoms
Grown(atoms) ==
    LET f == pane_prompt_file(hand.w.pane) IN WithFile(prompts, f, prompts[f] \o atoms)

HInit ==
    /\ FInit
    /\ hand = [w |-> NoHFrame, r |-> NoHFrame]

\* send_prompt or send_prompt_with_metadata is called
begin_send_prompt(op, pane_id, prompt) ==
    /\ hand.w.pc = "idle"
    /\ hand' = [hand EXCEPT !.w = HFrame(op, "open", pane_id, prompt, hand.w.last)]
    /\ UNCHANGED <<prompts, sent>>

\* create_dir_all and OpenOptions::open with create and truncate: the file
\* is there and empty
open_truncate ==
    /\ hand.w.pc = "open"
    /\ prompts' = WithFile(prompts, pane_prompt_file(hand.w.pane), <<>>)
    /\ hand' = [hand EXCEPT !.w.pc =
                    IF hand.w.op = "send_prompt_with_metadata" THEN "header" ELSE "prompt"]
    /\ UNCHANGED sent

\* send_prompt_with_metadata: the four writeln! before the prompt
write_header ==
    /\ hand.w.pc = "header"
    /\ prompts' = Grown(Header)
    /\ hand' = [hand EXCEPT !.w.pc = "prompt"]
    /\ UNCHANGED sent

\* writeln!(file, "{}", prompt) on the unbuffered File: the prompt is written
write_prompt ==
    /\ hand.w.pc = "prompt"
    /\ prompts' = Grown(hand.w.prompt)
    /\ hand' = [hand EXCEPT !.w.pc = "newline"]
    /\ UNCHANGED sent

\* then its newline; flush, and the call returns Ok
write_newline ==
    /\ hand.w.pc = "newline"
    /\ prompts' = Grown(<<"\n">>)
    /\ sent' = [sent EXCEPT ![hand.w.pane] = Some(hand.w.prompt)]
    /\ hand' = [hand EXCEPT !.w.pc = "idle",
                            !.w.last = PromptRet(hand.w.pane, TRUE, "Ok", hand.w.prompt, TRUE)]

\* read_prompt is called
begin_read_prompt(pane_id) ==
    /\ hand.r.pc = "idle"
    /\ hand' = [hand EXCEPT !.r = HFrame("read_prompt", "exists", pane_id, <<>>, hand.r.last)]
    /\ UNCHANGED <<prompts, sent>>

\* read_prompt: `if !prompt_file.exists()` returns NotFound
check_exists ==
    /\ hand.r.pc = "exists"
    /\ hand' = IF pane_prompt_file(hand.r.pane) \in DOMAIN prompts
               THEN [hand EXCEPT !.r.pc = "read"]
               ELSE [hand EXCEPT !.r.pc = "idle",
                                 !.r.last = PromptRet(hand.r.pane, FALSE, "NotFound", <<>>, FALSE)]
    /\ UNCHANGED <<prompts, sent>>

\* read_prompt: fs::read_to_string returns what the file holds now
read_to_string ==
    /\ hand.r.pc = "read"
    /\ hand' = [hand EXCEPT !.r.pc = "idle",
                            !.r.last = PromptRet(hand.r.pane, TRUE, "Ok",
                                                 prompts[pane_prompt_file(hand.r.pane)], TRUE)]
    /\ UNCHANGED <<prompts, sent>>

\* the variables the hand-off leaves alone
hvars == <<qvars, rvars, maplog, pvars, tvars, fed, mutex, th, peers, peerlog, flocks, fl, wvars>>

HandoffNext ==
    \/ \E op \in {"send_prompt", "send_prompt_with_metadata"},
          p \in TmuxPaneIds, t \in PromptTexts :
            begin_send_prompt(op, p, t) /\ UNCHANGED hvars
    \/ open_truncate /\ UNCHANGED hvars
    \/ write_header /\ UNCHANGED hvars
    \/ write_prompt /\ UNCHANGED hvars
    \/ write_newline /\ UNCHANGED hvars
    \/ \E p \in TmuxPaneIds : begin_read_prompt(p) /\ UNCHANGED hvars
    \/ check_exists /\ UNCHANGED hvars
    \/ read_to_string /\ UNCHANGED hvars

HandoffInit ==
    /\ QIdle /\ RIdle /\ MIdle /\ TIdle
    /\ fed = <<>> /\ mutex = 0 /\ th = <<>> /\ peers = <<>> /\ peerlog = <<>>
    /\ flocks = <<>> /\ fl = <<>> /\ WIdle
    /\ HInit

HandoffSpec == HandoffInit /\ [][HandoffNext]_vars

\* ------------------------------------------------------ server discovery
\* A URL is a sequence of atoms: its text up to the trailing slashes, then
\* one atom per trailing "/"; <<>> is the empty string.
DefaultUrls == {<<>>, <<"http://127.0.0.1:4096">>, <<"http://agent:8080", "/">>}

\* std::env::var("OPENCODE_SERVER_URL"): unset, empty, or a URL
EnvValues == {None, Some(<<>>), Some(<<"http://env:5000">>)}

\* the ports discover() tries on localhost, in its order
Ports == <<"4096", "4097", "4098", "4099">>

\* how a GET of the health URL may end: a 2xx status, another status, or no
\* response (connection refused, timeout after 2 s)
Answers == {"2xx", "5xx", "error"}

OpenCodeStatus(running, url, status) == [running |-> running, url |-> url, status |-> status]

\* server_url.trim_end_matches('/')
RECURSIVE trim_end_matches_slash(_)
trim_end_matches_slash(url) ==
    IF url # <<>> /\ url[Len(url)] = "/"
    THEN trim_end_matches_slash(SubSeq(url, 1, Len(url) - 1))
    ELSE url

\* format!("{}/health", server_url.trim_end_matches('/'))
health_url(server_url) == trim_end_matches_slash(server_url) \o <<"/health">>

\* OpenCodeDiscovery::check_server, given how the GET ends
check_server(server_url, answer) ==
    IF server_url = <<>> THEN OpenCodeStatus(FALSE, None, "Unknown")
    ELSE IF answer = "2xx" THEN OpenCodeStatus(TRUE, Some(server_url), "Available")
    ELSE IF answer = "5xx" THEN OpenCodeStatus(FALSE, Some(server_url), "Unavailable")
    ELSE OpenCodeStatus(FALSE, Some(server_url), "Unknown")

\* faulty variant: the environment variable is tried before the default URL
Candidates_env_first(default_server_url, env) ==
    (IF env # None /\ env[1] # <<>> THEN <<env[1]>> ELSE <<>>)
        \o <<default_server_url>>
        \o [i \in 1..Len(Ports) |-> <<"http://127.0.0.1:" \o Ports[i]>>]

\* the URLs discover() hands to check_server, in its order: the default URL,
\* the environment value when set and non-empty, the four localhost ports
Candidates(default_server_url, env) ==
    <<default_server_url>>
        \o (IF env # None /\ env[1] # <<>> THEN <<env[1]>> ELSE <<>>)
        \o [i \in 1..Len(Ports) |-> <<"http://127.0.0.1:" \o Ports[i]>>]

\* the checks of discover() from the i-th candidate on; answers[i] is how the
\* i-th check's GET ends; probes are the health URLs requested so far
RECURSIVE discover_from(_, _, _, _)
discover_from(cands, answers, i, probes) ==
    IF i > Len(cands)
    THEN [status |-> OpenCodeStatus(FALSE, None, "Unavailable"), probes |-> probes]
    ELSE LET st == check_server(cands[i], answers[i])
             asked == IF cands[i] = <<>> THEN probes ELSE Append(probes, health_url(cands[i]))
         IN  IF st.running THEN [status |-> st, probes |-> asked]
             ELSE discover_from(cands, answers, i + 1, asked)

\* OpenCodeDiscovery::discover
discover(default_server_url, env, answers) ==
    discover_from(Candidates(default_server_url, env), answers, 1, <<>>)

DiscoverInputs ==
    [default_server_url : DefaultUrls, env : EnvValues, answers : [1..6 -> Answers]]

DInit ==
    /\ input \in DiscoverInputs
    /\ resp = NoResp

call_discover ==
    /\ resp' = Resp("discover", FALSE,
                    discover(input.default_server_url, input.env, input.answers))
    /\ UNCHANGED input

DiscoverNext == call_discover /\ UNCHANGED <<qvars, zvars, rvars, maplog, tvars, fvars>>

DiscoverInit == QIdle /\ RIdle /\ MIdle /\ TIdle /\ FIdle /\ ZIdle /\ DInit

DiscoverSpec == DiscoverInit /\ [][DiscoverNext]_vars

\* ----------------------------- stats() and retry_failed() over damaged files
\* The queue directory may hold a *.msg file that fs::read_to_string cannot
\* read (not UTF-8, no permission) or that serde_json cannot parse (cut short
\* by a crash in mid-write). `scan` holds the files, the in-memory list and
\* the last call.
MaxListed == 3      \* entries of the in-memory list before no enqueue or sweep starts

FileStates == {"json", "malformed", "unreadable"}

MsgFile(state, m, r) == [state |-> state, message |-> m, retries |-> r]

\* a call, its result, and the files of the directory that were unreadable
\* or malformed when it ran
ScanRet(op, val, st, n, damaged) ==
    [op |-> op, val |-> val, st |-> st, n |-> n, damaged |-> damaged]

NoScanRet == ScanRet("new", "Ok", NoStats, 0, {})

Damaged(d) == {f \in DOMAIN d : d[f].state # "json"}

\* the files both `if let Ok` of stats() let through
Counted(d) == {f \in DOMAIN d : d[f].state = "json"}

SInit ==
    scan = [files |-> <<>>, list |-> <<>>, last |-> NoScanRet]

\* enqueue_message on this directory
enqueue_message_on_disk(m) ==
    /\ Len(scan.list) < MaxListed
    /\ LET f == FileOf(m) IN
        scan' = [files |-> [g \in DOMAIN scan.files \cup {f} |->
                                IF g = f THEN MsgFile("json", m, 0) ELSE scan.files[g]],
                 list |-> Append(scan.list, QueuedMessage(m, 0)),
                 last |-> ScanRet("enqueue_message", "Ok", NoStats, 0, Damaged(scan.files))]

\* the environment: a file of the directory is cut short or made unreadable
damage(f, state) ==
    /\ f \in DOMAIN scan.files
    /\ scan.files[f].state = "json"
    /\ scan' = [scan EXCEPT !.files[f].state = state]

\* MessageQueue::stats: a file that cannot be read or parsed is passed over
\* by the two `if let Ok`, and the call returns Ok
stats_on_disk ==
    LET d == scan.files
        failed == Cardinality({f \in Counted(d) : d[f].retries >= 3})
        queued == Cardinality({f \in Counted(d) : ~(d[f].retries >= 3)})
    IN  scan' = [scan EXCEPT !.last = ScanRet("stats", "Ok",
                                              QueueStats(Len(scan.list), queued, failed),
                                              0, Damaged(d))]

\* the position of the first file of the listing that read_to_string fails on
FirstUnreadable(order, d) ==
    LET bad == {i \in 1..Len(order) : d[order[i]].state = "unreadable"} IN
    IF bad = {} THEN Len(order) + 1 ELSE CHOOSE i \in bad : \A j \in bad : i <= j

\* MessageQueue::retry_failed: `?` returns the error of the first file that
\* cannot be read, after the files listed before it were rewritten and
\* appended; a file that cannot be parsed is passed over by `if let Ok`
retry_failed_on_disk(order) ==
    LET d == scan.files
        k == FirstUnreadable(order, d)
        seen == SubSeq(order, 1, k - 1)
        todo == SelectSeq(seen, LAMBDA f : d[f].state = "json" /\ should_retry(d[f]))
    IN  /\ Len(scan.list) + Len(todo) <= MaxListed
        /\ scan' = [files |-> [f \in DOMAIN d |->
                                IF \E i \in 1..Len(todo) : todo[i] = f
                                THEN MsgFile("json", d[f].message, d[f].retries + 1)
                                ELSE d[f]],
                    list |-> scan.list \o [i \in 1..Len(todo) |->
                                QueuedMessage(d[todo[i]].message, d[todo[i]].retries + 1)],
                    last |-> ScanRet("retry_failed",
                                     IF k <= Len(order) THEN "Err" ELSE "Ok",
                                     NoStats, Len(todo), Damaged(d))]

\* MessageQueue::dequeue on this instance
dequeue_on_disk ==
    /\ scan.list # <<>>
    /\ scan' = [scan EXCEPT !.list = Tail(scan.list),
                            !.last = ScanRet("dequeue", "Ok", NoStats, 0, Damaged(scan.files))]

cvars == <<qvars, rvars, maplog, pvars, tvars, fvars,
           fed, mutex, th, peers, peerlog, flocks, fl, hand, typing, child, watch>>

ScanNext ==
    \/ \E m \in ToPane("a") : enqueue_message_on_disk(m) /\ UNCHANGED cvars
    \/ \E f \in DOMAIN scan.files, state \in {"malformed", "unreadable"} :
          damage(f, state) /\ UNCHANGED cvars
    \/ stats_on_disk /\ UNCHANGED cvars
    \/ \E order \in ReadDirOrders(DOMAIN scan.files) :
          retry_failed_on_disk(order) /\ UNCHANGED cvars
    \/ dequeue_on_disk /\ UNCHANGED cvars

ScanInit ==
    /\ QIdle /\ RIdle /\ MIdle /\ PIdle /\ TIdle /\ FIdle
    /\ fed = <<>> /\ mutex = 0 /\ th = <<>> /\ peers = <<>> /\ peerlog = <<>>
    /\ flocks = <<>> /\ fl = <<>> /\ hand = <<>>
    /\ typing = <<>> /\ child = <<>> /\ watch = <<>>
    /\ SInit

ScanSpec == ScanInit /\ [][ScanNext]_vars

\* ------------------------------------------------- send_keys_enter, by steps
\* tmux::pane::send_keys_enter runs two tmux subprocesses one after the
\* other; the pane may be killed, a command may fail and the caller may die
\* between them. `typed` is what the server accepted, `live` its panes.
MaxKeyed == 4       \* send-keys commands the server accepts in one behaviour

KeyTexts == {"ls"}

\* the frame of a send_keys_enter call: the statement it stands before, its
\* arguments, the send-keys commands it issued and how it ended
KFrame(pc, pane, text, cmds, val) ==
    [pc |-> pc, pane |-> pane, text |-> text, cmds |-> cmds, val |-> val]

KInit ==
    typing = KFrame("idle", "", "", <<>>, "none")

call_send_keys_enter(pane_id, text) ==
    /\ typing.pc = "idle"
    /\ Len(typed) + 2 <= MaxKeyed
    /\ typing' = KFrame("text", pane_id, text, <<>>, "running")
    /\ UNCHANGED rvars

\* one send-keys subprocess: it fails when the pane is gone, and may fail anyway
KeyOutcomes(pane_id) ==
    IF \E s \in DOMAIN live : live[s] = pane_id THEN BOOLEAN ELSE {FALSE}

\* faulty variant: the `?` after the first send_keys is missing
send_keys_text_unchecked(ok) ==
    /\ typing.pc = "text"
    /\ typed' = IF ok THEN Append(typed, Call("send-keys", typing.pane, typing.text, TRUE))
                ELSE typed
    /\ typing' = [typing EXCEPT
                    !.cmds = Append(@, Call("send-keys", typing.pane, typing.text, ok)),
                    !.pc = "enter"]
    /\ UNCHANGED <<opencode_client, auto_detect, mappings, mapfile, live, rret>>

\* send_keys(pane_id, keys)?
send_keys_text(ok) ==
    /\ typing.pc = "text"
    /\ typed' = IF ok THEN Append(typed, Call("send-keys", typing.pane, typing.text, TRUE))
                ELSE typed
    /\ typing' = [typing EXCEPT
                    !.cmds = Append(@, Call("send-keys", typing.pane, typing.text, ok)),
                    !.pc = IF ok THEN "enter" ELSE "idle",
                    !.val = IF ok THEN "running" ELSE "Err"]
    /\ UNCHANGED <<opencode_client, auto_detect, mappings, mapfile, live, rret>>

\* send_keys(pane_id, "Enter")?; Ok(())
send_keys_Enter(ok) ==
    /\ typing.pc = "enter"
    /\ typed' = IF ok THEN Append(typed, Call("send-keys", typing.pane, "Enter", TRUE))
                ELSE typed
    /\ typing' = [typing EXCEPT
                    !.cmds = Append(@, Call("send-keys", typing.pane, "Enter", ok)),
                    !.pc = "idle",
                    !.val = IF ok THEN "Ok" ELSE "Err"]
    /\ UNCHANGED <<opencode_client, auto_detect, mappings, mapfile, live, rret>>

\* the calling process dies inside the call
crash_typing ==
    /\ typing.pc \in {"text", "enter"}
    /\ typing' = [typing EXCEPT !.pc = "idle", !.val = "crash"]
    /\ UNCHANGED rvars

kvars == <<qvars, maplog, pvars, tvars, fvars,
           fed, mutex, th, peers, peerlog, flocks, fl, hand, scan, child, watch>>

KeysNext ==
    \/ \E p \in TmuxPaneIds, t \in KeyTexts : call_send_keys_enter(p, t) /\ UNCHANGED kvars
    \/ \E ok \in KeyOutcomes(typing.pane) : send_keys_text(ok) /\ UNCHANGED kvars
    \/ \E ok \in KeyOutcomes(typing.pane) : send_keys_Enter(ok) /\ UNCHANGED kvars
    \/ crash_typing /\ UNCHANGED kvars
    \/ \E n \in RemoteIds, p \in TmuxPaneIds :
          new_session(n, p) /\ UNCHANGED <<typing, kvars>>
    \/ \E n \in RemoteIds : kill_session(n) /\ UNCHANGED <<typing, kvars>>

KeysInit ==
    /\ QIdle /\ RIdle /\ MIdle /\ PIdle /\ TIdle /\ FIdle
    /\ fed = <<>> /\ mutex = 0 /\ th = <<>> /\ peers = <<>> /\ peerlog = <<>>
    /\ flocks = <<>> /\ fl = <<>> /\ hand = <<>>
    /\ scan = <<>> /\ child = <<>> /\ watch = <<>>
    /\ KInit

KeysSpec == KeysInit /\ [][KeysNext]_vars

\* --------------------------------------------- execute_with_timeout, by steps
\* Time is counted in polling intervals (10 ms): the subprocess may exit at
\* any time, the caller tests the clock, then the subprocess, then sleeps.
MaxTimeout == 2     \* the longest timeout, in polling intervals

\* what the subprocess writes and how it exits, once it does
ChildOutputs == {o \in Outputs : Len(o.stdout) <= 1 /\ Len(o.stderr) <= 1}

\* the frame of an execute_with_timeout call and its subprocess: the
\* statement the caller stands before, what the subprocess produces, the
\* timeout, the time elapsed, whether and when the subprocess exited, whether
\* it was killed, and the value returned
CFrame(pc, out, d, elapsed, exited, exitedAt, killed, result) ==
    [pc |-> pc, out |-> out, d |-> d, elapsed |-> elapsed, exited |-> exited,
     exitedAt |-> exitedAt, killed |-> killed, result |-> result]

CInit ==
    \E o \in ChildOutputs, d \in 0..MaxTimeout :
        child = CFrame("spawn", o, d, 0, FALSE, 0, FALSE, None)

\* StdCommand::new("tmux").args(&args).spawn(): the streams of the
\* subprocess are those of the caller, no pipe is made
spawn(ok) ==
    /\ child.pc = "spawn"
    /\ child' = IF ok THEN [child EXCEPT !.pc = "check"]
                ELSE [child EXCEPT !.pc = "done", !.result = Some(Err("Process", <<>>))]

\* the subprocess exits on its own
child_exits ==
    /\ child.pc \notin {"spawn", "done"}
    /\ ~child.exited
    /\ child' = [child EXCEPT !.exited = TRUE, !.exitedAt = child.elapsed]

\* if start.elapsed() > timeout { child.kill().ok(); return Err(Timeout) }
check_elapsed ==
    /\ child.pc = "check"
    /\ child' = IF child.elapsed > child.d
                THEN [child EXCEPT !.pc = "done", !.killed = TRUE,
                                   !.result = Some(Err("Timeout", <<>>))]
                ELSE [child EXCEPT !.pc = "try_wait"]

\* what wait_with_output collects from a subprocess spawned without pipes:
\* its exit status and two empty streams
wait_with_output(out) == Output(out.status, <<>>, <<>>)

\* match child.try_wait()
try_wait(ok) ==
    /\ child.pc = "try_wait"
    /\ child' = IF ~ok
                THEN [child EXCEPT !.pc = "done", !.result = Some(Err("Process", <<>>))]
                ELSE IF child.exited
                THEN [child EXCEPT !.pc = "done",
                                   !.result = Some(parse_output(wait_with_output(child.out)))]
                ELSE [child EXCEPT !.pc = "sleep"]

\* std::thread::sleep(Duration::from_millis(10))
sleep ==
    /\ child.pc = "sleep"
    /\ child' = [child EXCEPT !.pc = "check", !.elapsed = child.elapsed + 1]

evars == <<qvars, rvars, maplog, pvars, tvars, fvars,
           fed, mutex, th, peers, peerlog, flocks, fl, hand, scan, typing, watch>>

TimeoutNext ==
    \/ \E ok \in BOOLEAN : spawn(ok) /\ UNCHANGED evars
    \/ child_exits /\ UNCHANGED evars
    \/ check_elapsed /\ UNCHANGED evars
    \/ \E ok \in BOOLEAN : try_wait(ok) /\ UNCHANGED evars
    \/ sleep /\ UNCHANGED evars

TimeoutInit ==
    /\ QIdle /\ RIdle /\ MIdle /\ PIdle /\ TIdle /\ FIdle
    /\ fed = <<>> /\ mutex = 0 /\ th = <<>> /\ peers = <<>> /\ peerlog = <<>>
    /\ flocks = <<>> /\ fl = <<>> /\ hand = <<>>
    /\ scan = <<>> /\ typing = <<>> /\ watch = <<>>
    /\ CInit

TimeoutSpec == TimeoutInit /\ [][TimeoutNext]_vars

\* ------------------------------------------------- parsing of the listings
\* The stdout of list-sessions, list-windows and list-panes is a text of
\* atoms: ":" separates fields, "\n" ends a line, the other atoms are pieces
\* of a field.
MaxLineLen == 3     \* atoms in a line drawn from the whole alphabet

ListAtoms == {"$1", "0", ":"}

\* longer lines: a session, a window and a pane as tmux prints them
SampleLines ==
    {<<"$1", ":", "work", ":", "0">>,
     <<"@", "1", ":", "bash", ":", "1">>,
     <<"%1", ":", "/tmp", ":", "42", ":", "1">>,
     <<"%2", ":", ":", "0", ":", "0">>}

ListLines == SeqsUpTo(ListAtoms, MaxLineLen) \cup SampleLines

\* one or two lines, the last with or without its line feed
ListOutputs ==
    {<<>>}
    \cup {l \o e : l \in ListLines, e \in {<<>>, <<"\n">>}}
    \cup {l \o <<"\n">> \o m \o e : l \in ListLines, m \in ListLines, e \in {<<>>, <<"\n">>}}

RECURSIVE split_colon(_)
\* line.split(':').collect()
split_colon(line) ==
    IF ~contains(line, ":") THEN <<line>>
    ELSE LET i == CHOOSE i \in 1..Len(line) :
                    line[i] = ":" /\ \A j \in 1..i - 1 : line[j] # ":"
         IN  <<SubSeq(line, 1, i - 1)>> \o split_colon(SubSeq(line, i + 1, Len(line)))

\* faulty variant: a line needs one field more than the format has
enough_gt(parts, n) == Len(parts) > n

\* parts.len() >= n
enough(parts, n) == Len(parts) >= n

\* the field lists of the lines the loop builds an entity from, in order
entity_lines(output, n) ==
    IF trim(output) = <<>> THEN <<>>
    ELSE LET all == [i \in 1..Len(lines(output)) |-> split_colon(lines(output)[i])] IN
         SelectSeq(all, LAMBDA parts : enough(parts, n))

\* window_id.0.split('@').next()
extract_session_id_from_window(window_id) == split_colon(
    [i \in 1..Len(window_id) |-> IF window_id[i] = "@" THEN ":" ELSE window_id[i]])[1]

\* parts[2].parse::<u32>().ok()
parse_u32(field) == IF field \in {<<"0">>, <<"42">>} THEN Some(field) ELSE None

\* the Pane, Window and Session built from the fields of one line
PaneOf(parts, window_id) ==
    [id |-> parts[1], window_id |-> window_id,
     session_id |-> extract_session_id_from_window(window_id),
     current_path |-> IF parts[2] = <<>> THEN None ELSE Some(parts[2]),
     pid |-> parse_u32(parts[3]), active |-> parts[4] # <<"0">>]

WindowOf(parts, session_id, panes) ==
    [id |-> parts[1], session_id |-> session_id, name |-> parts[2],
     panes |-> panes, active |-> parts[3] # <<"0">>]

SessionOf(parts, windows) ==
    [id |-> parts[1], name |-> parts[2], windows |-> windows, attached |-> parts[3] # <<"0">>]

\* list_panes, from the stdout of its command
list_panes(output, window_id) ==
    LET ps == entity_lines(output, 4) IN
    Response("Panes", [i \in 1..Len(ps) |-> PaneOf(ps[i], window_id)])

\* list_windows, from the stdout of its command; `nested` tells whether the
\* list_panes calls it makes succeed: the first one that fails ends the call
list_windows(output, session_id, nested) ==
    LET ws == entity_lines(output, 3) IN
    IF ws # <<>> /\ ~nested THEN Err("Command", <<"can't find window">>)
    ELSE Response("Windows", [i \in 1..Len(ws) |-> WindowOf(ws[i], session_id, <<>>)])

\* list_sessions, from the stdout of its command; `nested` likewise for its
\* list_windows calls
list_sessions(output, nested) ==
    LET ss == entity_lines(output, 3) IN
    IF ss # <<>> /\ ~nested THEN Err("Command", <<"can't find session">>)
    ELSE Response("Sessions", [i \in 1..Len(ss) |-> SessionOf(ss[i], <<>>)])

\* the command has run and printed its listing
GInit ==
    /\ input \in ListOutputs
    /\ resp = NoResp

call_list_sessions(nested) ==
    /\ resp' = Resp("list_sessions", FALSE, list_sessions(input, nested))
    /\ UNCHANGED input

call_list_windows(nested) ==
    /\ resp' = Resp("list_windows", FALSE, list_windows(input, <<"$1">>, nested))
    /\ UNCHANGED input

call_list_panes ==
    /\ resp' = Resp("list_panes", FALSE, list_panes(input, <<"@", "1">>))
    /\ UNCHANGED input

ListingNext ==
    \/ \E nested \in BOOLEAN :
          call_list_sessions(nested) /\ UNCHANGED <<qvars, zvars, rvars, maplog, tvars, fvars>>
    \/ \E nested \in BOOLEAN :
          call_list_windows(nested) /\ UNCHANGED <<qvars, zvars, rvars, maplog, tvars, fvars>>
    \/ call_list_panes /\ UNCHANGED <<qvars, zvars, rvars, maplog, tvars, fvars>>

ListingInit == QIdle /\ RIdle /\ MIdle /\ TIdle /\ FIdle /\ GInit /\ ZIdle

ListingSpec == ListingInit /\ [][ListingNext]_vars

\* ---------------------------------------------------------- watch_messages
\* OpencodeReader::watch_messages polls GET /session/{id}/messages once a
\* second; the session gains messages while it is watched.
MaxMessages == 3    \* messages the session comes to hold
MaxPolls == 3       \* get_messages calls of one watch_messages call

\* the ids the server gives the messages of the session, in order
MessageIdOf(k) == <<"m", k>>

\* the frame of a watch_messages call and the session it polls: the messages
\* of the session, the statement the caller stands before, the messages the
\* last poll returned, the position of the for loop in them,
\* last_message_id ("" as <<>>), the ids passed to the callback so far, and
\* the number of polls made
WFrame(session, pc, messages, i, last_message_id, delivered, polls) ==
    [session |-> session, pc |-> pc, messages |-> messages, i |-> i,
     last_message_id |-> last_message_id, delivered |-> delivered, polls |-> polls]

WInit ==
    watch = WFrame(<<>>, "get_messages", <<>>, 0, <<>>, <<>>, 0)

\* the agent or the user adds a message to the session
post_message ==
    /\ Len(watch.session) < MaxMessages
    /\ watch' = [watch EXCEPT !.session = Append(@, MessageIdOf(Len(watch.session) + 1))]

\* let messages = self.get_messages(session_id, None).await?
get_messages(ok) ==
    /\ watch.pc = "get_messages"
    /\ watch.polls < MaxPolls
    /\ watch' = IF ok
                THEN [watch EXCEPT !.pc = "for", !.messages = watch.session, !.i = 1,
                                   !.polls = @ + 1]
                ELSE [watch EXCEPT !.pc = "returned", !.polls = @ + 1]

\* one turn of `for msg in &messages`
for_msg ==
    /\ watch.pc = "for"
    /\ watch.i <= Len(watch.messages)
    /\ LET id == watch.messages[watch.i] IN
        watch' = IF id # watch.last_message_id
                 THEN [watch EXCEPT !.delivered = Append(@, id),
                                    !.last_message_id = id, !.i = @ + 1]
                 ELSE [watch EXCEPT !.i = @ + 1]

\* tokio::time::sleep(Duration::from_millis(1000)).await
sleep_1000ms ==
    /\ watch.pc = "for"
    /\ watch.i > Len(watch.messages)
    /\ watch' = [watch EXCEPT !.pc = "get_messages"]

avars == <<qvars, rvars, maplog, pvars, tvars, fvars,
           fed, mutex, th, peers, peerlog, flocks, fl, hand, scan, typing, child>>

WatchNext ==
    \/ post_message /\ UNCHANGED avars
    \/ \E ok \in BOOLEAN : get_messages(ok) /\ UNCHANGED avars
    \/ for_msg /\ UNCHANGED avars
    \/ sleep_1000ms /\ UNCHANGED avars

WatchInit ==
    /\ QIdle /\ RIdle /\ MIdle /\ PIdle /\ TIdle /\ FIdle
    /\ fed = <<>> /\ mutex = 0 /\ th = <<>> /\ peers = <<>> /\ peerlog = <<>>
    /\ flocks = <<>> /\ fl = <<>> /\ hand = <<>>
    /\ scan = <<>> /\ typing = <<>> /\ child = <<>>
    /\ WInit

WatchSpec == WatchInit /\ [][WatchNext]_vars

\* ------------------------------------------------------------------ claims
Min(a, b) == IF a < b THEN a ELSE b

\* the entries a step appended to the in-memory list
Pushed == SubSeq(queue', Len(queue) + 1, Len(queue'))

\* C1: on an empty in-memory list, enqueue_message(m) followed by dequeue()
\* returns an entry with message.id = m.id and retries = 0, and the list is
\* empty again.
C1_RoundTrip ==
    (prev.op = "enqueue_message" /\ prev.before = 0 /\ ret.op = "dequeue") =>
        /\ Len(ret.out) = 1
        /\ ret.out[1].message.id = prev.msg[1].id
        /\ ret.out[1].retries = 0
        /\ queue = <<>>

C1_Witness ==
    /\ prev.op = "enqueue_message" /\ prev.before = 0
    /\ ret.op = "dequeue" /\ ret.out # <<>>
    /\ disk # <<>>

\* C2: dequeue() returns the entries in the order in which they were appended:
\* it returns the entry of the list that was appended first, every entry left
\* in the list was appended after it and keeps its place, and it returns None
\* only when the list is empty.
C2_Fifo ==
    [][ret'.op = "dequeue" =>
        IF queue = <<>>
        THEN ret'.out = <<>> /\ queue' = <<>>
        ELSE /\ Len(ret'.out) = 1
             /\ \E i \in 1..Len(queue) : queue[i] = ret'.out[1]
             /\ \A i \in 1..Len(queue) : ret'.out[1].stamp <= queue[i].stamp
             /\ Len(queue') = Len(queue) - 1
             /\ \A i \in 1..Len(queue') :
                    /\ queue'[i] = queue[i + 1]
                    /\ queue'[i].stamp > ret'.out[1].stamp]_vars

C2_Witness ==
    /\ prev.op = "dequeue" /\ prev.out # <<>>
    /\ ret.op = "dequeue" /\ ret.out # <<>>
    /\ prev.out[1].stamp < ret.out[1].stamp
    /\ queue # <<>>

\* C3: dequeue() changes only the in-memory list: the file of the dequeued
\* message still exists, stats().queued and stats().failed are the same before
\* and after, and stats().pending drops by one.
C3_DequeueFrame ==
    [][(ret'.op = "dequeue" /\ queue # <<>>) =>
        /\ disk' = disk
        /\ FileOf(ret'.out[1].message) \in DOMAIN disk'
        /\ stats(queue', disk').queued = stats(queue, disk).queued
        /\ stats(queue', disk').failed = stats(queue, disk).failed
        /\ stats(queue', disk').pending = stats(queue, disk).pending - 1]_vars

C3_Witness ==
    /\ ret.op = "dequeue" /\ ret.out # <<>>
    /\ FileOf(ret.out[1].message) \in DOMAIN disk
    /\ Len(queue) = ret.before - 1
    /\ stats_failed(disk) > 0

\* C4: stats() returns pending = length of the in-memory list, queued = number
\* of message files with retries < 3, failed = number of message files with
\* retries = 3, from the directory as it is at the call; one enqueue_message
\* on an empty queue and directory gives {pending 1, queued 1, failed 0}.
C4_Stats ==
    LET claimed == QueueStats(Len(queue),
                              Cardinality({f \in DOMAIN disk : disk[f].retries < 3}),
                              Cardinality({f \in DOMAIN disk : disk[f].retries = 3}))
    IN  /\ stats(queue, disk) = claimed
        /\ ret.op = "stats" => ret.st = claimed
        /\ (ret.op = "stats" /\ prev.op = "enqueue_message" /\ prev.before = 0
                /\ Cardinality(DOMAIN disk) = 1) => ret.st = QueueStats(1, 1, 0)

C4_Witness ==
    /\ ret.op = "stats"
    /\ ret.st.pending > 0 /\ ret.st.queued > 0 /\ ret.st.failed > 0

\* C5: a message enqueued once is counted by exactly the first three
\* retry_failed() calls after it, its file's retries becoming 1, 2, 3; from
\* the third on it is counted under stats().failed instead of stats().queued,
\* and a later retry_failed() neither counts it, nor rewrites its file, nor
\* re-appends it to the in-memory list.
C5_RetryBound ==
    [][ret'.op = "retry_failed" =>
        /\ ret'.n = Cardinality({f \in DOMAIN disk : sweeps[f] < 3})
        /\ Len(Pushed) = ret'.n
        /\ DOMAIN disk' = DOMAIN disk
        /\ \A f \in DOMAIN disk :
            /\ disk'[f].retries = Min(sweeps'[f], 3)
            /\ IF sweeps[f] < 3
               THEN /\ disk'[f].retries = sweeps[f] + 1
                    /\ Cardinality({i \in 1..Len(Pushed) :
                            FileOf(Pushed[i].message) = f}) = 1
               ELSE /\ disk'[f] = disk[f]
                    /\ \A i \in 1..Len(Pushed) : FileOf(Pushed[i].message) # f
        /\ stats_failed(disk') = Cardinality({f \in DOMAIN disk : sweeps'[f] >= 3})
        /\ stats_queued(disk') = Cardinality({f \in DOMAIN disk : sweeps'[f] < 3})]_vars

C5_Witness ==
    /\ ret.op = "retry_failed" /\ ret.n = 0
    /\ \E f \in DOMAIN disk : sweeps[f] = 4 /\ disk[f].retries = 3
    /\ stats(queue, disk).failed = 1 /\ stats(queue, disk).queued = 0

\* C6: after clear(), whatever preceded it, stats() is {0, 0, 0}; a second
\* clear() leaves it there.
C6_ClearIdempotent ==
    ret.op = "clear" => stats(queue, disk) = QueueStats(0, 0, 0)

C6_Witness ==
    /\ prev.op = "clear" /\ prev.before > 0
    /\ ret.op = "clear"
    /\ stats(queue, disk) = QueueStats(0, 0, 0)

SendOps == {"send_prompt", "send_message"}

HttpKinds == {"session_prompt", "session_message"}

\* the last operation asked the agent and the call failed
AgentCallFailed(r) ==
    r.calls # <<>> /\ r.calls[1].kind \in HttpKinds /\ ~r.calls[1].ok

\* the last operation made a call of this kind
Called(r, kind) == \E i \in 1..Len(r.calls) : r.calls[i].kind = kind

\* C7: under AgentOnly (MessageMode::Opencode), when the agent HTTP call fails,
\* send_prompt/send_message returns an error and takes no terminal delivery
\* or other fallback step.
C7_AgentOnlyFailureIsError ==
    (rret.op \in SendOps /\ rret.mode = "Opencode" /\ AgentCallFailed(rret)) =>
        /\ rret.val = "Err"
        /\ Len(rret.calls) = 1

\* C8: with mode Auto or Opencode and a client configured, when the HTTP call
\* succeeds the send returns true and stops: no live-session search, no
\* send-keys, no insert into the session mapping store, which is unchanged.
C8_AgentSuccessStops ==
    [][(rret'.op \in SendOps /\ rret'.calls # <<>>
            /\ rret'.calls[1].kind \in HttpKinds /\ rret'.calls[1].ok) =>
        /\ rret'.mode \in {"Auto", "Opencode"} /\ opencode_client # None
        /\ rret'.val = "Ok(true)"
        /\ Len(rret'.calls) = 1
        /\ mappings' = mappings
        /\ mapfile' = mapfile
        /\ typed' = typed]_vars

C8_Witness ==
    /\ rret.op \in SendOps /\ rret.val = "Ok(true)"
    /\ rret.sid \in DOMAIN live
    /\ rret.sid \notin DOMAIN mappings

\* C9: whenever a send under Auto or TerminalOnly (MessageMode::Tmux) does not
\* deliver via the agent and a destination pane is resolved, the content is
\* injected into that pane through send-keys before the call returns.
C9_FallbackInjectsKeys ==
    (rret.op \in SendOps /\ rret.mode \in {"Auto", "Tmux"} /\ rret.val # "Ok(true)"
        /\ \E i \in 1..Len(rret.calls) :
                rret.calls[i].kind = "find_pane_by_session_name" /\ rret.calls[i].ok) =>
        \E i \in 1..Len(rret.calls) :
            rret.calls[i].kind = "send-keys" /\ rret.calls[i].data = rret.text

\* C10: after a fallback delivery for remote id r that found a live session by
\* name, the session mapping store holds an entry for r, and the next
\* fallback delivery for r resolves the destination from it without
\* searching the live sessions again.
C10_CachedMappingSkipsSearch ==
    [][(/\ rret.op \in SendOps /\ rret.val = "Ok(false)"
        /\ \E i \in 1..Len(rret.calls) :
                rret.calls[i].kind = "find_pane_by_session_name" /\ rret.calls[i].ok
        /\ rret'.op \in SendOps /\ rret'.val = "Ok(false)"
        /\ rret'.sid = rret.sid) =>
            /\ lookup_tmux(mappings, rret.sid) # None
            /\ rret'.had # None
            /\ ~Called(rret', "find_pane_by_session_name")]_vars

\* the local name the calls logged so far leave for a remote id: that of the
\* last insert of the id with no remove of it and no clear after it
RECURSIVE Surviving(_, _)
Surviving(log, r) ==
    IF log = <<>> THEN None
    ELSE LET last == log[Len(log)] IN
         IF last.op = "clear" THEN None
         ELSE IF last.id = r
              THEN (IF last.op = "insert" THEN Some(last.name) ELSE None)
              ELSE Surviving(SubSeq(log, 1, Len(log) - 1), r)

\* C11: after any sequence of insert, remove and clear the table holds at most
\* one entry per remote id, and lookup_tmux(r) is the name of the most recent
\* insert(r, _) not followed by remove(r) or clear(), and None otherwise
C11_LastInsertWins ==
    \A r \in RemoteIds :
        /\ Cardinality({e \in list(mappings) : e.opencode_session_id = r}) <= 1
        /\ lookup_tmux(mappings, r) = Surviving(maplog, r)

\* an id inserted twice with different names, then another id removed
C11_Witness ==
    /\ Len(maplog) >= 3
    /\ \E i, j \in 1..Len(maplog) :
          /\ i < j
          /\ maplog[i].op = "insert" /\ maplog[j].op = "insert"
          /\ maplog[i].id = maplog[j].id /\ maplog[i].name # maplog[j].name
          /\ \A k \in j + 1..Len(maplog) : maplog[k].op = "remove" /\ maplog[k].id # maplog[j].id
          /\ j < Len(maplog)
          /\ lookup_tmux(mappings, maplog[j].id) = Some(maplog[j].name)

ErrorMarkers == {"<error>", "Error:", "error:"}

ToolMarkers == {"Running:", "<tool_call>"}

CompletionMarkers == {"<complete>", "I'll complete", "Done."}

HasAny(text, markers) == \E i \in 1..Len(text) : text[i] \in markers

\* the kind the first matching marker class gives a text
FirstMatch(text) ==
    IF HasAny(text, ErrorMarkers) THEN "Error"
    ELSE IF HasAny(text, ToolMarkers) THEN "ToolCall"
    ELSE IF HasAny(text, CompletionMarkers) THEN "Completion"
    ELSE "Message"

\* C12: parse_agent_output classifies every input as exactly one of Error,
\* ToolCall, Completion, Message by first match in that order: an error marker
\* beats a tool-call and a completion marker, a tool-call marker beats a
\* completion marker, and an input with no marker is Message
C12_FirstMatchWins ==
    resp.op = "parse_agent_output" =>
        /\ ~resp.panicked
        /\ Len(resp.value) = 1
        /\ resp.value[1].message_type = FirstMatch(input)

\* the text between the first <error> and the first </error> after it
Enclosed(text) ==
    LET i == CHOOSE i \in 1..Len(text) :
                text[i] = "<error>" /\ \A k \in 1..i - 1 : text[k] # "<error>"
        j == CHOOSE j \in i + 1..Len(text) :
                text[j] = "</error>" /\ \A k \in i + 1..j - 1 : text[k] # "</error>"
    IN  SubSeq(text, i + 1, j - 1)

HasErrorTag(text) ==
    \E i, j \in 1..Len(text) : i < j /\ text[i] = "<error>" /\ text[j] = "</error>"

IsInfix(part, text) ==
    \E k \in 0..Len(text) - Len(part) : SubSeq(text, k + 1, k + Len(part)) = part

\* C13: for any input that contains an <error>...</error> tag the parser returns
\* success = false, kind Error, and an error field that contains the text the
\* tag encloses ("disk full" for <error>disk full</error>)
C13_ErrorTagText ==
    (resp.op = "parse_agent_output" /\ HasErrorTag(input)) =>
        /\ ~resp.panicked
        /\ resp.value[1].success = FALSE
        /\ resp.value[1].message_type = "Error"
        /\ resp.value[1].error # None
        /\ IsInfix(Enclosed(input), resp.value[1].error[1])

FirstToken(text) == LET parts == split_whitespace(text) IN
    IF parts = <<>> THEN <<>> ELSE <<parts[1]>>

RECURSIVE SpanNames(_, _)
\* the first token of every <tool_call>...</tool_call> span of a line, from atom i on
SpanNames(line, i) ==
    IF i > Len(line) THEN <<>>
    ELSE IF line[i] = "<tool_call>"
            /\ \E j \in i + 1..Len(line) :
                /\ line[j] = "</tool_call>"
                /\ \A k \in i + 1..j - 1 : line[k] \notin {"<tool_call>", "</tool_call>"}
    THEN LET j == CHOOSE j \in i + 1..Len(line) :
                    /\ line[j] = "</tool_call>"
                    /\ \A k \in i + 1..j - 1 : line[k] \notin {"<tool_call>", "</tool_call>"}
         IN  FirstToken(SubSeq(line, i + 1, j - 1)) \o SpanNames(line, j + 1)
    ELSE SpanNames(line, i + 1)

RECURSIVE MarkedNames(_)
\* per line, in line order: the first token after a leading `Running: `, then
\* the first token of each span (a marker with no token after it names no tool)
MarkedNames(ls) ==
    IF ls = <<>> THEN <<>>
    ELSE LET line == ls[1] IN
         (IF Len(line) >= 2 /\ line[1] = "Running:" /\ line[2] = " "
          THEN FirstToken(SubSeq(line, 3, Len(line))) ELSE <<>>)
         \o SpanNames(line, 1) \o MarkedNames(Tail(ls))

\* C14: for an input classified ToolCall, tool_calls holds one ToolCall for
\* every line beginning with `Running: ` and for every <tool_call>...</tool_call>
\* span, in line order, each named by the first whitespace-separated token after
\* the marker; `Running: read filePath=/tmp/x.txt` yields exactly one call "read"
C14_OneCallPerMarker ==
    (resp.op = "parse_agent_output" /\ FirstMatch(input) = "ToolCall") =>
        /\ ~resp.panicked
        /\ [k \in 1..Len(resp.value[1].tool_calls) |-> resp.value[1].tool_calls[k].tool_name]
                = MarkedNames(split(input))

\* the message of a failed command: stderr, or stdout when stderr is empty
RawMessage == IF input.stderr = <<>> THEN input.stdout ELSE input.stderr

\* C16: the result of execute is determined by exit status, stdout and stderr:
\* on non-zero exit a message containing "not found" or "no such" gives
\* NotFound, otherwise one containing "not connected" or "no server running"
\* gives NotConnected, otherwise Command carrying the raw message; on zero exit
\* empty stdout gives Empty and non-empty stdout gives Output(stdout)
C16_Classified ==
    (resp.op = "execute" /\ resp.value.kind # "Process") =>
        /\ input.status = "exit 1" =>
            /\ ~resp.value.ok
            /\ resp.value.kind =
                  IF HasAny(RawMessage, {"not found", "no such"}) THEN "NotFound"
                  ELSE IF HasAny(RawMessage, {"not connected", "no server running"})
                  THEN "NotConnected"
                  ELSE "Command"
            /\ resp.value.kind = "Command" => resp.value.text = RawMessage
        /\ input.status = "exit 0" =>
            resp.value = IF input.stdout = <<>> THEN Response("Empty", <<>>)
                         ELSE Response("Output", input.stdout)

\* a failed command whose message names both a missing target and a missing server
C16_Witness ==
    /\ resp.op = "execute"
    /\ input.status = "exit 1"
    /\ input.stderr = <<"no server running", "not found">>
    /\ resp.value.kind = "NotFound"

\* C17: new_session(name) issues one new-session command and then re-queries
\* the session listing: it returns the session of that name, and NotFound
\* ("not found after creation") when the listing does not contain it, as when
\* another client killed or renamed the session between creation and re-query
C17_RequeryDecides ==
    (ns.pc = "ready" /\ ns.result # None) =>
        /\ ns.cmds[1] = "new-session"
        /\ \A k \in 2..Len(ns.cmds) : ns.cmds[k] # "new-session"
        /\ Len(ns.cmds) >= 2 => ns.cmds[2] = "list-sessions"
        /\ Len(ns.cmds) = 1 => ~ns.result[1].ok
        /\ ns.listed =>
              IF \E k \in 1..Len(ns.tree) : ns.tree[k].name = ns.name
              THEN /\ ns.result[1].ok
                   /\ ns.result[1].text.name = ns.name
                   /\ \E k \in 1..Len(ns.snap) :
                        ns.snap[k] = [id |-> ns.result[1].text.id, name |-> ns.name]
              ELSE ns.result[1] = Err("NotFound", <<"not found after creation">>)

\* the session was created, another client renamed it, and the listing that
\* followed held a session but none of the name
C17_Witness ==
    /\ ns.pc = "ready"
    /\ ns.listed
    /\ Len(ns.tree) >= 1
    /\ ns.result = Some(Err("NotFound", <<"not found after creation">>))
    /\ \E k \in 1..Len(tmux) : tmux[k].id = made - 1 /\ tmux[k].name # ns.name

\* C18: for each pane p, send_prompt(p, text) followed by read_prompt(p)
\* returns text followed by a newline, a later send_prompt replacing an
\* earlier one; after clear_prompt(p), read_prompt(p) returns NotFound; and
\* clear_prompt on a pane with no prompt file succeeds without effect
C18_PromptRoundTrip ==
    [][ /\ (resp'.op = "read_prompt" /\ resp'.value.kind # "Process"
                /\ sent[resp'.value.pane] # Unknown) =>
              IF sent[resp'.value.pane] = None
              THEN ~resp'.value.ok /\ resp'.value.kind = "NotFound"
              ELSE resp'.value.ok
                     /\ resp'.value.text = sent[resp'.value.pane][1] \o <<"\n">>
        /\ (resp'.op = "clear_prompt"
                /\ pane_prompt_file(resp'.value.pane) \notin DOMAIN prompts) =>
              resp'.value.ok /\ prompts' = prompts
      ]_vars

\* "bye" was read back from pane %0 while the file of pane %1 holds "hello"
C18_Witness ==
    /\ resp.op = "read_prompt"
    /\ resp.value.pane = "%0"
    /\ resp.value.ok
    /\ resp.value.text = <<"bye", "\n">>
    /\ sent["%1"] = Some(<<"hello">>)

\* in every reachable state of a queue driven by enqueue_message, dequeue,
\* retry_failed and clear, every in-memory entry and every message file has
\* 0 <= retries <= 3
C19_RetriesInRange ==
    /\ \A i \in 1..Len(queue) : queue[i].retries \in 0..3
    /\ \A f \in DOMAIN disk : disk[f].retries \in 0..3

\* enqueue_message creates its entry and its file with retries = 0, and
\* retries changes only by retry_failed incrementing it by exactly one
C19_RetriesSteps ==
    [][ /\ ret'.op = "enqueue_message" =>
              /\ \A i \in 1..Len(Pushed) : Pushed[i].retries = 0
              /\ disk'[FileOf(ret'.msg[1])].retries = 0
        /\ \A f \in DOMAIN disk \cap DOMAIN disk' :
              disk'[f].retries # disk[f].retries =>
                  \/ ret'.op = "retry_failed" /\ disk'[f].retries = disk[f].retries + 1
                  \/ ret'.op = "enqueue_message" /\ f = FileOf(ret'.msg[1])
        /\ \A i \in 1..Len(queue), j \in 1..Len(queue') :
              queue'[j].stamp = queue[i].stamp => queue'[j].retries = queue[i].retries
        /\ ret'.op = "retry_failed" =>
              \A i \in 1..Len(Pushed) :
                  LET f == FileOf(Pushed[i].message) IN
                  f \in DOMAIN disk /\ Pushed[i].retries = disk[f].retries + 1
      ]_vars

C20_MemoryMatchesDisk ==
    \A i \in 1..Len(queue) :
        LET f == FileOf(queue[i].message) IN
        /\ f \in DOMAIN disk
        /\ disk[f].message.pane_id = queue[i].message.pane_id
        /\ disk[f].message.id = queue[i].message.id
        /\ disk[f].retries = queue[i].retries

\* the enqueue_message calls made on this instance had pairwise distinct ids
DistinctIdsFed == \A id \in DOMAIN fed : fed[id] <= 1

\* C21: in every reachable state of one MessageQueue instance fed by
\* enqueue_message calls with pairwise distinct message ids, and any dequeue,
\* retry_failed and clear calls between them, no two entries of the in-memory
\* list carry the same message id.
C21_UniqueIds ==
    DistinctIdsFed =>
        \A i, j \in 1..Len(queue) :
            queue[i].message.id = queue[j].message.id => i = j

\* an instance opened after a crash starts with an empty list, and the file
\* the crashed enqueue_message wrote holds its message with retries 0
C22_OpensEmpty ==
    (ret.op = "new" /\ prev.op = "crash") =>
        /\ queue = <<>>
        /\ FileOf(prev.msg[1]) \in DOMAIN disk
        /\ disk[FileOf(prev.msg[1])] = QueuedMessage(prev.msg[1], 0)

\* a sweep appends an entry, retries incremented, for every file whose
\* retries are below 3, and an entry leaves the list only when dequeue
\* returns it, on clear, or with the instance
C22_SweepHandsOver ==
    [][/\ ret'.op = "retry_failed" =>
            \A f \in DOMAIN disk : disk[f].retries < 3 =>
                /\ disk'[f] = QueuedMessage(disk[f].message, disk[f].retries + 1)
                /\ \E i \in Len(queue) + 1..Len(queue') :
                        /\ queue'[i].message = disk[f].message
                        /\ queue'[i].retries = disk[f].retries + 1
       /\ \A i \in 1..Len(queue) :
            (\A j \in 1..Len(queue') : queue'[j] # queue[i]) =>
                \/ ret'.op = "dequeue" /\ ret'.out = <<queue[i]>>
                \/ ret'.op \in {"clear", "new"}]_vars

\* C22: if a crash happens after enqueue_message wrote the message file and
\* before it appended to the in-memory list, an instance opened later on the
\* same directory starts with pending = 0, and its next retry_failed()
\* appends that message with retries incremented, to be returned by a
\* following dequeue(): a written file is handed over at least once when a
\* sweep runs while its retries are below 3.
C22_OrphanRecovered == []C22_OpensEmpty /\ C22_SweepHandsOver

\* dequeue returned, after the sweep, a message this instance never appended
\* before: its file was left by the enqueue_message that crashed
C22_Witness ==
    /\ ret.op = "dequeue" /\ prev.op = "retry_failed"
    /\ ret.out # <<>> /\ ret.out[1].retries = 1
    /\ fed = <<>> /\ appended = 1

\* C23: no MessageQueue operation holds the in-memory queue mutex while it
\* performs file or directory I/O: a thread that holds the mutex never stands
\* before a statement that touches the file system.
C23_NoIoUnderLock ==
    \A t \in Threads : mutex = t => th[t].pc \notin IoSteps

InsertedBy(p, r) == \E i \in 1..Len(peerlog) : peerlog[i].proc = p /\ peerlog[i].id = r

\* C25: with two SessionMappingStore instances loaded from the same file and
\* no locking, each insert rewrites the whole file from the table of its own
\* instance: after an insert that saved, the file equals the table of that
\* instance, and a mapping only the other instance inserted is absent from it.
C25_LastWriterWins ==
    (peerlog # <<>> /\ peerlog[Len(peerlog)].proc # 0 /\ peerlog[Len(peerlog)].ok) =>
        LET p == peerlog[Len(peerlog)].proc IN
        /\ mapfile = peers[p]
        /\ \A q \in Procs \ {p}, r \in RemoteIds :
                (InsertedBy(q, r) /\ ~InsertedBy(p, r) /\ ~InsertedBy(0, r)) =>
                    r \notin DOMAIN mapfile

\* both instances saved an insert, and the one saved first is lost from the file
C25_Witness ==
    /\ peerlog # <<>> /\ peerlog[Len(peerlog)].ok
    /\ \E i \in 1..Len(peerlog) :
            /\ peerlog[i].ok
            /\ peerlog[i].proc \in Procs \ {peerlog[Len(peerlog)].proc}
            /\ peerlog[i].id \notin DOMAIN mapfile
            /\ peerlog[i].id \in DOMAIN peers[peerlog[i].proc]

\* C26: after every successful insert, remove or clear on a
\* SessionMappingStore the persisted table equals the in-memory table, so a
\* store constructed afterwards from the same file returns the same
\* lookup_tmux result for every remote id.
C26_PersistedMatchesMemory ==
    (rret.op \in {"insert", "remove", "clear"} /\ rret.val = "Ok") =>
        /\ mapfile = mappings
        /\ \A order \in ReadDirOrders(DOMAIN mapfile), r \in RemoteIds :
                lookup_tmux(new_store(mapfile, order), r) = lookup_tmux(mappings, r)

\* a remove that took one entry out and left another was saved
C26_Witness ==
    /\ rret.op = "remove" /\ rret.val = "Ok" /\ rret.had # None
    /\ mappings # <<>>
    /\ Len(maplog) >= 3

\* the owners with a live FileLock value on the path
HoldersOf(path) == {o \in Owners : path \in Holding(o)}

\* C28: at most one FileLock on a given path is held at any time:
\* FileLock::acquire on a path whose lock is held fails at once with a
\* Process(WouldBlock) error instead of waiting, and succeeds when there is
\* no holder (and the lock file could be opened).
C28_OneHolder ==
    /\ \A path \in LockPaths : Cardinality(HoldersOf(path)) <= 1
    /\ \A o \in Owners :
        fl[o].last.op \in {"acquire", "try_with"} =>
            /\ (fl[o].last.busy /\ fl[o].last.val # "Err(io)") =>
                    fl[o].last.val = "Err(Process(WouldBlock))"
            /\ ~fl[o].last.busy => fl[o].last.val \in {"Ok", "Err(io)"}

\* one owner holds the lock and the acquire of the other failed with WouldBlock
C28_Witness ==
    \E o \in Owners, q \in Owners, path \in LockPaths :
        /\ o # q
        /\ path \in fl[o].held
        /\ fl[q].last = FlRet("acquire", path, "Err(Process(WouldBlock))", TRUE)
        /\ path \notin Holding(q)

\* the lock table names an owner only while that owner has a live FileLock
\* value on the path
C29_NoLeak ==
    \A path \in LockPaths : flocks[path] # 0 => path \in Holding(flocks[path])

\* when a FileLock value goes away (try_with returns, whatever its closure
\* did, or the value is dropped) the lock of its path is free, and an
\* acquire on a free path whose file opens succeeds
C29_ReleaseSteps ==
    [][\A o \in Owners, path \in LockPaths :
        /\ (path \in Holding(o) /\ path \notin Holding(o)') => flocks'[path] = 0
        /\ (flocks[path] = 0 /\ fl'[o].last = FlRet("acquire", path, fl'[o].last.val, FALSE)
                /\ fl'[o].last.val # "Err(io)" /\ fl'[o] # fl[o]) =>
            /\ fl'[o].last.val = "Ok"
            /\ flocks'[path] = o]_vars

\* C29: a FileLock is released on every exit path: after FileLock::try_with
\* returns, whether its closure returned Ok or Err, and after any FileLock
\* value is dropped, the lock is free and a new acquire on the same path
\* succeeds.
C29_ReleasedOnExit == []C29_NoLeak /\ C29_ReleaseSteps

\* the closure of one owner's try_with failed, and the other owner then
\* acquired the same path and holds it
C29_Witness ==
    \E o \in Owners, q \in Owners, path \in LockPaths :
        /\ o # q
        /\ fl[o].last = FlRet("try_with returned", path, "Err(closure)", TRUE)
        /\ fl[q].last = FlRet("acquire", path, "Ok", FALSE)
        /\ path \in fl[q].held

\* the contents a prompt file holds between two completed writes
WholeFiles ==
    {Complete(op, t) : op \in {"send_prompt", "send_prompt_with_metadata"}, t \in PromptTexts}

\* C27: writing a pane's prompt file (send_prompt, send_prompt_with_metadata)
\* and reading it (read_prompt) are serialized by the exclusive advisory file
\* lock, so a reader running concurrently with a writer never observes an
\* empty or partially written prompt file: what read_prompt returns is the
\* whole content of a completed write.
C27_ReaderSeesWholeFile ==
    (hand.r.last.kind = "Ok" /\ hand.r.last.ok) => hand.r.last.text \in WholeFiles

\* the health URLs in the order the claim gives: the default URL (not asked
\* when empty), the environment value if set and non-empty, ports 4096..4099
ClaimedProbes ==
    (IF input.default_server_url = <<>> THEN <<>>
     ELSE <<health_url(input.default_server_url)>>)
    \o (IF input.env = None \/ input.env = Some(<<>>) THEN <<>>
        ELSE <<health_url(input.env[1])>>)
    \o << <<"http://127.0.0.1:4096", "/health">>, <<"http://127.0.0.1:4097", "/health">>,
          <<"http://127.0.0.1:4098", "/health">>, <<"http://127.0.0.1:4099", "/health">> >>

\* how the k-th probe of ClaimedProbes ended: the empty default URL takes the
\* first answer without a probe
AnswerOf(k) == input.answers[IF input.default_server_url = <<>> THEN k + 1 ELSE k]

\* C30: discover() probes the candidates strictly in the order default URL,
\* OPENCODE_SERVER_URL (if set and non-empty), 127.0.0.1 ports 4096..4099; it
\* stops at the first whose health probe answers 2xx and returns it as
\* running with that URL, probing no later candidate; if none answers it
\* returns running = false with no URL.
C30_FirstHealthyWins ==
    resp.op = "discover" =>
        LET probes == resp.value.probes
            st == resp.value.status
            n == Len(probes)
        IN  /\ n <= Len(ClaimedProbes)
            /\ probes = SubSeq(ClaimedProbes, 1, n)
            /\ \A k \in 1..n - 1 : AnswerOf(k) # "2xx"
            /\ st.running <=> (n >= 1 /\ AnswerOf(n) = "2xx")
            /\ st.running =>
                    /\ st.url # None
                    /\ health_url(st.url[1]) = probes[n]
            /\ ~st.running => (n = Len(ClaimedProbes) /\ st.url = None)

\* the default URL, the environment URL and port 4096 did not answer 2xx,
\* port 4097 did and is returned after four probes
C30_Witness ==
    /\ resp.op = "discover"
    /\ resp.value.status = OpenCodeStatus(TRUE, Some(<<"http://127.0.0.1:4097">>), "Available")
    /\ Len(resp.value.probes) = 4
    /\ input.env = Some(<<"http://env:5000">>)
    /\ input.default_server_url = <<"http://agent:8080", "/">>

\* the last operation asked the agent over HTTP
AskedAgent(r) == \E i \in 1..Len(r.calls) : r.calls[i].kind \in HttpKinds

\* the last initialize ran discovery and discovery found no endpoint
DiscoveryFailed(r) ==
    r.op = "initialize" /\ r.calls # <<>> /\ r.calls[1].kind = "discover" /\ ~r.calls[1].ok

C32_TerminalOnlyNeverAsks ==
    (rret.op \in SendOps /\ rret.mode = "Tmux") =>
        /\ ~AskedAgent(rret)
        /\ Len(rret.calls) = 1
        /\ rret.calls[1].kind = "find_pane_by_session_name"
        /\ rret.val # "Ok(true)"

\* a TerminalOnly send on an instance that has an agent client
C32_Witness ==
    /\ rret.op \in SendOps /\ rret.mode = "Tmux"
    /\ opencode_client # None
    /\ rret.val = "Ok(false)" /\ rret.calls[1].ok

\* C33: queue operations surface every failure: when a message file of the
\* queue directory cannot be read or cannot be parsed, a stats() or
\* retry_failed() call over that directory returns an error instead of
\* passing the file over.
C33_DamageSurfaced ==
    (scan.last.op \in {"stats", "retry_failed"} /\ scan.last.damaged # {}) =>
        scan.last.val = "Err"

\* the keys the server accepted last for this pane, <<>> when none
LastTyped(pane_id) ==
    LET mine == SelectSeq(typed, LAMBDA c : c.target = pane_id) IN
    IF mine = <<>> THEN <<>> ELSE <<mine[Len(mine)].data>>

\* C34: send_keys_enter(pane, text) issues at most two send-keys commands to
\* that pane, in order: the text, then the key name Enter. Enter is issued
\* only after the text command succeeded; Ok means both were issued and
\* succeeded, Err means the last command issued failed. The pair is not
\* atomic: when the call ends by an error or a crash after the text command
\* succeeded and before an Enter succeeded, the pane holds the text typed and
\* not submitted.
C34_TextThenEnter ==
    LET c == typing.cmds IN
    /\ Len(c) <= 2
    /\ \A i \in 1..Len(c) : c[i].kind = "send-keys" /\ c[i].target = typing.pane
    /\ Len(c) >= 1 => c[1].data = typing.text
    /\ Len(c) = 2 => (c[1].ok /\ c[2].data = "Enter")
    /\ typing.val = "Ok" => (Len(c) = 2 /\ c[2].ok)
    /\ typing.val = "Err" => (Len(c) >= 1 /\ ~c[Len(c)].ok)
    /\ (typing.val \in {"Err", "crash"} /\ Len(c) >= 1 /\ c[1].ok /\ ~(Len(c) = 2 /\ c[2].ok))
            => LastTyped(typing.pane) = <<typing.text>>

\* the Enter command failed after the text was typed: the call returned Err
\* and the pane holds the text without the Enter
C34_Witness ==
    /\ typing.val = "Err"
    /\ Len(typing.cmds) = 2 /\ typing.cmds[1].ok /\ ~typing.cmds[2].ok
    /\ LastTyped(typing.pane) = <<typing.text>>

\* the call returned and no operating-system call of its own failed
Returned(c) == c.pc = "done" /\ c.result # Some(Err("Process", <<>>))

\* C35: execute_with_timeout(d) returns Timeout, after killing the
\* subprocess, exactly when d elapses before the subprocess exits; when the
\* subprocess exits before d elapses it returns what execute returns for that
\* subprocess: parse_output of its exit status, stdout and stderr.
C35_TimeoutOrSameResponse ==
    Returned(child) =>
        IF child.exited /\ child.exitedAt <= child.d
        THEN child.result = Some(parse_output(child.out))
        ELSE child.result = Some(Err("Timeout", <<>>)) /\ child.killed

\* the number of colon-separated fields of a line
FieldCount(line) == 1 + Len(SelectSeq(line, LAMBDA a : a = ":"))

\* the first field of a line
FirstField(line) ==
    LET colons == {i \in 1..Len(line) : line[i] = ":"} IN
    IF colons = {} THEN line
    ELSE SubSeq(line, 1, (CHOOSE i \in colons : \A j \in colons : i <= j) - 1)

\* the lines of a listing with at least n fields, in output order
FullLines(output, n) == SelectSeq(lines(output), LAMBDA l : FieldCount(l) >= n)

ExpectedFields(op) == IF op = "list_panes" THEN 4 ELSE 3

ListOps == {"list_sessions", "list_windows", "list_panes"}

\* C36: list_sessions, list_windows and list_panes return exactly one entity
\* per output line with at least 3, 3 and 4 colon-separated fields, in output
\* order, the first field being its id; a shorter line is skipped and does
\* not fail the call: a call fails only by a nested listing call, which it
\* makes only for a line with enough fields.
C36_OneEntityPerFullLine ==
    resp.op \in ListOps =>
        LET full == FullLines(input, ExpectedFields(resp.op)) IN
        /\ resp.value.ok =>
            /\ Len(resp.value.text) = Len(full)
            /\ \A i \in 1..Len(full) : resp.value.text[i].id = FirstField(full[i])
        /\ ~resp.value.ok => (full # <<>> /\ resp.op # "list_panes")

\* a listing of two lines of which one is too short: one entity is returned
C36_Witness ==
    /\ resp.op \in ListOps /\ resp.value.ok
    /\ Len(lines(input)) = 2
    /\ Len(resp.value.text) = 1
    /\ FieldCount(lines(input)[1]) < ExpectedFields(resp.op)
    /\ FieldCount(lines(input)[1]) > 1

\* C37: watch_messages processes only new messages: across the polls of one
\* session no message id is passed to the callback twice, also when the
\* session holds two or more messages.
C37_EachIdOnce ==
    \A i, j \in 1..Len(watch.delivered) :
        watch.delivered[i] = watch.delivered[j] => i = j

\* C38: every AgentResponse that parse_agent_output classifies as ToolCall
\* has a non-empty tool_calls list, and every response of kind Error,
\* Completion or Message has an empty one.
C38_ToolCallsMatchKind ==
    (resp.op = "parse_agent_output" /\ ~resp.panicked) =>
        LET r == resp.value[1] IN
        /\ r.message_type = "ToolCall" => r.tool_calls # <<>>
        /\ r.message_type \in {"Error", "Completion", "Message"} => r.tool_calls = <<>>

\* the nested listing calls of list_sessions
NestedCommands == {"list-windows", "list-panes"}

\* C39: list_sessions is a fan-out of separate commands (list-sessions, then
\* list-windows and list-panes for each session listed). When the session
\* whose windows or panes are asked for next has been killed since
\* list-sessions ran, that nested command fails and list_sessions ends there
\* with its error: the sessions built so far are not returned. A listing
\* that returns Ok holds every session list-sessions printed.
C39_NestedErrorNoPartialTree ==
    /\ [](ns.listed => Len(ns.tree) = Len(ns.snap))
    /\ []((ns.result # None /\ ns.result[1].ok) => ns.listed)
    /\ [][(ns.pc \in {"windows", "panes"} /\ ~Alive(ns.snap[ns.i].id) /\ ns' # ns) =>
            /\ ns'.pc = "ready"
            /\ ns'.cmds[Len(ns'.cmds)] \in NestedCommands
            /\ ~ns'.listed
            /\ ns'.result # None /\ ~ns'.result[1].ok
            /\ ns'.result[1].kind \in {"Command", "NotConnected"}
            /\ ns'.tree = ns.tree]_vars

\* list-windows failed for a session killed after list-sessions: the call
\* ended with the error although a session it had already built still exists
C39_Witness ==
    /\ ns.pc = "ready" /\ ~ns.listed
    /\ ns.cmds # <<>>
    /\ ns.cmds[Len(ns.cmds)] = "list-windows"
    /\ ns.result # None /\ ~ns.result[1].ok
    /\ Len(ns.tree) >= 1
    /\ Alive(ns.tree[1].id)

\* the in-memory entries whose message file is not in the directory
Fileless(q, d) == {q[k] : k \in {j \in 1..Len(q) : FileOf(q[j].message) \notin DOMAIN d}}

\* C40: enqueue_message writes its file before it takes the mutex, and
\* clear() removes the files while it holds it; so clear() can delete the
\* file between the write and the push_back of a concurrent enqueue, and
\* after both have returned the list holds an entry without a file (stats()
\* = {pending: 1, queued: 0, failed: 0}). This is the only way an entry
\* comes to lack its file: it is appended by a push_back whose file is gone
\* already; the list is empty while clear() removes files.
C40_FilelessOnlyByLatePush ==
    /\ [](\A t \in Threads :
            (th[t].op = "clear" /\ th[t].pc \in {"read_dir", "remove_file"}) =>
                (mutex = t /\ queue = <<>>))
    /\ [][(Fileless(queue', disk') \ Fileless(queue, disk) # {}) =>
            \E t \in Threads :
                /\ th[t].pc = "push_back" /\ th'[t].pc = "unlock"
                /\ disk' = disk
                /\ queue' = Append(queue, Entry(th[t].cur[1].message, th[t].cur[1].retries,
                                                appended + 1))
                /\ FileOf(th[t].cur[1].message) \notin DOMAIN disk]_vars

\* both calls have returned: one entry, appended by enqueue_message, in the
\* list and no file in the directory
C40_Witness ==
    /\ \A t \in Threads : th[t] = NoLFrame
    /\ mutex = 0
    /\ Len(queue) = 1 /\ queue[1].retries = 0
    /\ disk = <<>>
    /\ stats(queue, disk) = QueueStats(1, 0, 0)
====
